---------------------------- MODULE Spec2Model ----------------------------
(***************************************************************************)
(* Model of the Observation Masking service                                *)
(* (packages/core/src/services/observationMaskingService.ts).              *)
(*                                                                         *)
(* JavaScript objects live in a heap of addressed objects, so that object  *)
(* identity, shallow copies and in-place mutation are observable.  Strings *)
(* are run-length encoded texts: a sequence of runs, each "n characters of *)
(* class c".                                                               *)
(*                                                                         *)
(* A second part models ProjectRegistry (config/projectRegistry): the      *)
(* registry file, the instances backed by it and getShortId.  Each         *)
(* specification moves one part and leaves the other at rest.              *)
(*                                                                         *)
(* A last part models TerminalProvider (ui/contexts/TerminalContext): the  *)
(* stdin listener that looks for OSC 11 responses and its subscribers.     *)
(*                                                                         *)
(* Two further parts model StorageMigration.migrateDirectory               *)
(* (config/storageMigration.ts) on a directory tree, and the action of the *)
(* /plan command (ui/commands/planCommand.ts).                             *)
(***************************************************************************)
EXTENDS Integers, Sequences, FiniteSets, TLC

VARIABLES
    heap,        \* the JavaScript heap: a sequence of objects, address = index
    history,     \* address of the caller's history array (Content[])
    call,        \* the mask() invocation that has just ended: how it ended,
                 \* what it returned and its effects on storage and telemetry
    maskRuns,    \* number of masked histories the caller has taken over so far
    offloaded    \* the parts of the caller's history that an earlier invocation
                 \* put in the place of a prunable record

VARIABLES
    platform,      \* what os.platform() answers
    registryFile,  \* what the file at registryPath holds
    registries,    \* the ProjectRegistry instances: the data field of each
    lastShortId,   \* the getShortId call that has just ended
    shortIdCalls,  \* number of getShortId calls so far
    firstShortIds  \* for each normalized path, the identifier the first
                   \* getShortId call for it returned

VARIABLES
    disk,        \* the directories below tempDir: which exist, with what files
    migration,   \* the migrateDirectory call that has just ended
    migrations   \* number of migrateDirectory calls so far

VARIABLES
    planConfig,    \* context.services.config: absent, or whether plan mode is
                   \* enabled and the approval mode
    plansDir,      \* the plans directory: absent, or its entries
    planCall,      \* the /plan invocation that has just ended: its effects
    planCalls      \* number of /plan invocations so far

VARIABLES
    buffer,        \* the text TerminalProvider has read from stdin and kept
    subscribers,   \* the handlers subscribed to TerminalProvider, in the
                   \* order of their subscription
    dataEvent,     \* the 'data' event that has just been handled: its chunk,
                   \* the buffer and the subscribers it found, the calls made
    dataEvents     \* number of 'data' events handled so far

maskVars == <<heap, history, call, maskRuns, offloaded>>

registryVars ==
    <<platform, registryFile, registries, lastShortId, shortIdCalls,
      firstShortIds>>

migrationVars == <<disk, migration, migrations>>

planVars == <<planConfig, plansDir, planCall, planCalls>>

terminalVars == <<buffer, subscribers, dataEvent, dataEvents>>

vars == <<heap, history, call, maskRuns, offloaded, platform, registryFile,
          registries, lastShortId, shortIdCalls, firstShortIds, disk,
          migration, migrations, planConfig, plansDir, planCall, planCalls,
          buffer, subscribers, dataEvent, dataEvents>>

-----------------------------------------------------------------------------
(* Bounds of the model *)

\* largest number of 'data' events stdin emits
MaxDataEvents == 3
\* largest number of parts the caller's history holds, a turn without parts
\* counting as one
MaxParts == 2
\* largest number of parts of one turn
MaxTurnParts == 2
\* largest number of masked histories the caller takes over
MaxMaskRuns == 2
\* largest number of getShortId calls
MaxShortIdCalls == 3
\* largest number of migrateDirectory calls
MaxMigrations == 2
\* largest number of entries of the plans directory
MaxPlanFiles == 2
\* largest number of /plan invocations
MaxPlanCalls == 2

-----------------------------------------------------------------------------
(* Program constants *)

TOOL_PROTECTION_THRESHOLD == 50000
HYSTERESIS_THRESHOLD == 30000
SMART_TRUNCATION_TOKENS == 5000
OBSERVATION_DIR == "observations"
MASKED_MARKER == "[Observation Masked]"

-----------------------------------------------------------------------------
(* Strings *)

\* character classes a run may repeat; every other class is a literal whose
\* length is fixed
RepeatClasses == {"A", "B", "\n"}

Run(c, n) == [c |-> c, n |-> n, f |-> <<>>]

\* length of the string literals the model uses
StrLen(s) ==
    CASE s = MASKED_MARKER -> 20
      [] s = OBSERVATION_DIR -> 12
      [] s = "/mock/history" -> 13
      [] s = "tool1" -> 5
      [] s = "tool2" -> 5
      [] s = "unknown_tool" -> 12
      [] s = "undefined" -> 9
      [] s = "call-1" -> 6
      [] s = ".txt" -> 4
      [] s = "/" -> 1
      [] s = "_" -> 1
      [] s = "keep" -> 4
      [] OTHER -> 1

Lit(s) == <<Run(s, StrLen(s))>>

RECURSIVE TextLen(_)
TextLen(t) == IF t = <<>> THEN 0 ELSE Head(t).n + TextLen(Tail(t))

\* string concatenation; adjacent runs of one repeatable class merge, so that a
\* string has one representation
Concat(a, b) ==
    IF a = <<>> THEN b
    ELSE IF b = <<>> THEN a
    ELSE IF a[Len(a)].c = b[1].c /\ a[Len(a)].c \in RepeatClasses
         THEN SubSeq(a, 1, Len(a) - 1)
                  \o <<Run(b[1].c, a[Len(a)].n + b[1].n)>>
                  \o Tail(b)
         ELSE a \o b

\* a piece of a run: a piece of a literal is no longer that literal
Piece(r, n) ==
    IF r.c \in RepeatClasses \/ n = r.n THEN [r EXCEPT !.n = n]
    ELSE [c |-> "?", n |-> n, f |-> <<>>]

\* the first k characters
RECURSIVE Take(_, _)
Take(t, k) ==
    IF k <= 0 \/ t = <<>> THEN <<>>
    ELSE IF Head(t).n <= k THEN <<Head(t)>> \o Take(Tail(t), k - Head(t).n)
    ELSE <<Piece(Head(t), k)>>

\* all but the first k characters
RECURSIVE Drop(_, _)
Drop(t, k) ==
    IF k <= 0 \/ t = <<>> THEN t
    ELSE IF Head(t).n <= k THEN Drop(Tail(t), k - Head(t).n)
    ELSE <<Piece(Head(t), Head(t).n - k)>> \o Tail(t)

\* faulty variant: the head of the snippet is the whole text
SliceWhole(t, limit) == t

\* String.prototype.slice(0, limit)
SliceHead(t, limit) == Take(t, limit)

\* String.prototype.slice(-limit)
SliceTail(t, limit) == Drop(t, TextLen(t) - limit)

\* String.prototype.includes(MASKED_MARKER)
IncludesMarker(t) == \E i \in 1..Len(t) : t[i].c = MASKED_MARKER

\* content.split('\n').length
RECURSIVE CountNewlines(_)
CountNewlines(t) ==
    IF t = <<>> THEN 0
    ELSE (IF Head(t).c = "\n" THEN Head(t).n ELSE 0) + CountNewlines(Tail(t))

LineCount(t) == CountNewlines(t) + 1

\* number of decimal digits of n >= 0
RECURSIVE Digits(_)
Digits(n) == IF n < 10 THEN 1 ELSE 1 + Digits(n \div 10)

\* Number.prototype.toLocaleString(): the digits with a comma every three
LocaleString(n) ==
    <<[c |-> "#locale", n |-> Digits(n) + ((Digits(n) - 1) \div 3), f |-> <<n>>]>>

\* (bytes / 1024 / 1024).toFixed(2), kept as hundredths of a MiB
FixedTwo(bytes) ==
    LET h == (bytes * 200 + 1048576) \div 2097152
    IN  <<[c |-> "#fixed2", n |-> Digits(h \div 100) + 3, f |-> <<h>>]>>

-----------------------------------------------------------------------------
(* JavaScript values and the heap *)

Undefined == [t |-> "undefined", a |-> 0, s |-> <<>>]
Str(s) == [t |-> "string", a |-> 0, s |-> s]
Num(n) == [t |-> "number", a |-> n, s |-> <<>>]
Ref(a) == [t |-> "object", a |-> a, s |-> <<>>]

\* JavaScript truthiness of a value
Truthy(v) ==
    CASE v.t \in {"undefined", "null"} -> FALSE
      [] v.t = "string" -> v.s # <<>>
      [] v.t = "number" -> v.a # 0
      [] OTHER -> TRUE

\* a plain object with the given fields, and an array of the given elements
Object(fields) == [k |-> "object", f |-> fields, e |-> <<>>]
Array(elems) == [k |-> "array", f |-> <<>>, e |-> elems]

\* obj[key], undefined when the object has no such key
Get(h, a, key) ==
    IF key \in DOMAIN h[a].f THEN h[a].f[key] ELSE Undefined

\* key in obj
HasKey(h, a, key) == key \in DOMAIN h[a].f

\* { ...obj, key: v } as a record of fields
Spread(fields, key, v) ==
    [x \in (DOMAIN fields) \cup {key} |-> IF x = key THEN v ELSE fields[x]]

-----------------------------------------------------------------------------
(* Content, Part and functionResponse accessors *)

Null == [t |-> "null", a |-> 0, s |-> <<>>]

\* history[i]: the address of the i-th Content (1-based)
ContentAt(h, hist, i) == h[hist].e[i]

\* content.parts || []: the parts of a Content, as a sequence of addresses
PartsOf(h, content) ==
    LET p == Get(h, content, "parts")
    IN  IF p.t = "object" THEN h[p.a].e ELSE <<>>

\* part.functionResponse.response, undefined when there is no functionResponse
ResponseOf(h, part) ==
    LET fr == Get(h, part, "functionResponse")
    IN  IF fr.t = "object" THEN Get(h, fr.a, "response") ELSE Undefined

\* the first of the four recognized keys that holds a string, or "" when none
\* does (the chain of tests of getObservationContent)
ContentKey(h, resp) ==
    LET holds(key) == HasKey(h, resp, key) /\ Get(h, resp, key).t = "string"
    IN  IF holds("output") THEN "output"
        ELSE IF holds("result") THEN "result"
        ELSE IF holds("stdout") THEN "stdout"
        ELSE IF holds("content") THEN "content"
        ELSE ""

\* getObservationContent(part): a string value, or Null
GetObservationContent(h, part) ==
    LET fr == Get(h, part, "functionResponse")
        response == ResponseOf(h, part)
    IN  IF ~Truthy(fr) THEN Null
        ELSE IF ~Truthy(response) THEN Null
        ELSE IF response.t = "string" THEN response
        ELSE IF response.t = "object"
             THEN IF ContentKey(h, response.a) # ""
                  THEN Get(h, response.a, ContentKey(h, response.a))
                  ELSE Null
        ELSE Null

\* faulty variant: the marker is never looked for
IsAlreadyMaskedNever(content) == FALSE

\* isAlreadyMasked(content)
IsAlreadyMasked(content) == IncludesMarker(content)

\* estimateTokenCountSync([part]): the estimator is an external collaborator;
\* as the test's estimator it counts one token per character of the part's
\* observation text
EstimateTokenCountSync(h, part) ==
    LET c == GetObservationContent(h, part)
    IN  IF c.t = "string" THEN TextLen(c.s) ELSE 0

\* the string of a tool name inside a template literal: `${toolName}`
TemplateString(v) ==
    IF v.t = "string" THEN v.s
    ELSE IF v.t = "number" THEN
        <<[c |-> "#number", n |-> Digits(v.a), f |-> <<v.a>>]>>
    ELSE Lit("undefined")

\* path.join(dir, name)
PathJoin(dir, name) == dir \o Lit("/") \o name

\* the truncation banner between head and tail
Banner(totalLines, fileSizeMB, totalTokens) ==
    <<Run("\n... [TRUNCATED ", 16)>> \o LocaleString(totalLines)
        \o <<Run(" LINES | ", 9)>> \o fileSizeMB
        \o <<Run("MB | ~", 6)>> \o LocaleString(totalTokens)
        \o <<Run(" TOKENS] ...\n", 13)>>

\* the trailing <observation_masked_guidance> block
Guidance(toolName, filePath, totalLines, fileSizeMB, totalTokens) ==
    <<Run("\n\n<observation_masked_guidance tool_name=", 42)>> \o toolName
        \o <<Run("<summary>Data from tool", 35)>> \o toolName
        \o <<Run("was offloaded to save context space.<file_path>", 79)>>
        \o filePath
        \o <<Run("</file_path><line_count>", 29)>> \o LocaleString(totalLines)
        \o <<Run("</line_count><file_size>", 29)>> \o fileSizeMB
        \o <<Run("MB</file_size><estimated_total_tokens>", 43)>>
        \o LocaleString(totalTokens)
        \o <<Run("</estimated_total_tokens><instructions>", 242)>>
        \o LocaleString(totalTokens)
        \o <<Run(" tokens.</instructions></observation_masked_guidance>", 57)>>

\* formatMaskedSnippet(content, filePath, toolName, totalTokens)
FormatMaskedSnippet(content, filePath, toolName, totalTokens) ==
    LET totalLines == LineCount(content)
        fileSizeMB == FixedTwo(TextLen(content))
        charLimit == SMART_TRUNCATION_TOKENS * 4
        head == SliceHead(content, charLimit)
        tail == SliceTail(content, charLimit)
    IN  IF 2 * TextLen(content) <= charLimit * 5
        THEN content
        ELSE Lit(MASKED_MARKER) \o <<Run("\n", 1)>> \o head
                 \o Banner(totalLines, fileSizeMB, totalTokens)
                 \o tail
                 \o Guidance(toolName, filePath, totalLines, fileSizeMB,
                             totalTokens)

-----------------------------------------------------------------------------
(* mask(), step 1: the backward scan *)

\* faulty variant: the scan starts with the protection boundary already declared
ScanInitBoundaryReached ==
    [cumulativeToolTokens |-> 0,
     protectionBoundaryReached |-> TRUE,
     totalPrunableTokens |-> 0,
     prunableParts |-> <<>>,
     estimated |-> <<>>, failAt |-> 0, error |-> ""]

\* the scan's variables before the first part is visited; beside them the
\* parts the estimator has been called with, which of its calls fails (0 for
\* none) and the error thrown
ScanInit ==
    [cumulativeToolTokens |-> 0,
     protectionBoundaryReached |-> FALSE,
     totalPrunableTokens |-> 0,
     prunableParts |-> <<>>,
     estimated |-> <<>>, failAt |-> 0, error |-> ""]

\* the scan in which the k-th call of the estimator throws
ScanFailingAt(k) == [ScanInit EXCEPT !.failAt = k]

\* faulty variant: the error of the estimator is swallowed and the part
\* counted for nothing
EstimateThrowsSwallowed(st, part) == [st EXCEPT !.estimated = Append(@, part)]

\* estimateTokenCountSync([part]) throws: the scan ends with the error
EstimateThrows(st, part) ==
    [st EXCEPT !.estimated = Append(@, part), !.error = "estimate"]

\* the record pushed on prunableParts (indices are 1-based here)
PrunableItem(i, j, partTokens, observationContent) ==
    [contentIndex |-> i, partIndex |-> j, tokens |-> partTokens,
     content |-> observationContent]

\* faulty variant: the boundary is declared on reaching the threshold
CrossesBoundaryInclusive(cumulative) == cumulative >= TOOL_PROTECTION_THRESHOLD

\* cumulativeToolTokens > TOOL_PROTECTION_THRESHOLD
CrossesBoundary(cumulative) == cumulative > TOOL_PROTECTION_THRESHOLD

\* faulty variant: a part whose text is empty is not skipped
SkippedByScanUnlessEmpty(h, part) ==
    LET observationContent == GetObservationContent(h, part)
    IN  \/ ~Truthy(Get(h, part, "functionResponse"))
        \/ observationContent.t # "string"
        \/ IsAlreadyMasked(observationContent.s)

\* the part is skipped by the scan: no functionResponse, no text, an empty
\* text, or a text that carries the masked marker
SkippedByScan(h, part) ==
    LET observationContent == GetObservationContent(h, part)
    IN  \/ ~Truthy(Get(h, part, "functionResponse"))
        \/ ~Truthy(observationContent)
        \/ IsAlreadyMasked(observationContent.s)

\* faulty variant: the part that crosses the boundary is protected, only the
\* older ones are prunable
ScanPartCrosserProtected(h, hist, i, j, st) ==
    LET part == PartsOf(h, ContentAt(h, hist, i))[j]
        observationContent == GetObservationContent(h, part)
        partTokens == EstimateTokenCountSync(h, part)
        item == PrunableItem(i, j, partTokens, observationContent.s)
        cumulative == st.cumulativeToolTokens + partTokens
    IN  IF st.error # "" THEN st
        ELSE IF SkippedByScan(h, part) THEN st
        ELSE IF Len(st.estimated) + 1 = st.failAt THEN EstimateThrows(st, part)
        ELSE IF ~st.protectionBoundaryReached
        THEN [st EXCEPT !.cumulativeToolTokens = cumulative,
                        !.protectionBoundaryReached = CrossesBoundary(cumulative),
                        !.estimated = Append(@, part)]
        ELSE [st EXCEPT !.totalPrunableTokens = @ + partTokens,
                        !.prunableParts = Append(@, item),
                        !.estimated = Append(@, part)]

\* the body of the inner loop for part j of content i
ScanPart(h, hist, i, j, st) ==
    LET part == PartsOf(h, ContentAt(h, hist, i))[j]
        observationContent == GetObservationContent(h, part)
        partTokens == EstimateTokenCountSync(h, part)
        item == PrunableItem(i, j, partTokens, observationContent.s)
        cumulative == st.cumulativeToolTokens + partTokens
    IN  IF st.error # "" THEN st
        ELSE IF SkippedByScan(h, part) THEN st
        ELSE IF Len(st.estimated) + 1 = st.failAt THEN EstimateThrows(st, part)
        ELSE IF ~st.protectionBoundaryReached
        THEN IF CrossesBoundary(cumulative)
             THEN [st EXCEPT
                      !.cumulativeToolTokens = cumulative,
                      !.protectionBoundaryReached = TRUE,
                      !.totalPrunableTokens = @ + partTokens,
                      !.prunableParts = Append(@, item),
                      !.estimated = Append(@, part)]
             ELSE [st EXCEPT !.cumulativeToolTokens = cumulative,
                             !.estimated = Append(@, part)]
        ELSE [st EXCEPT !.totalPrunableTokens = @ + partTokens,
                        !.prunableParts = Append(@, item),
                        !.estimated = Append(@, part)]

\* the two nested loops, from part j of content i downwards
RECURSIVE ScanFrom(_, _, _, _, _)
ScanFrom(h, hist, i, j, st) ==
    IF i < 1 THEN st
    ELSE IF j < 1
         THEN IF i = 1 THEN st
              ELSE ScanFrom(h, hist, i - 1,
                            Len(PartsOf(h, ContentAt(h, hist, i - 1))), st)
         ELSE ScanFrom(h, hist, i, j - 1, ScanPart(h, hist, i, j, st))

\* the whole backward scan of a history: with no failure of the estimator
\* (from ScanInit), or with one
ScanHistory(h, hist, st) ==
    LET n == Len(h[hist].e)
    IN  IF n = 0 THEN st
        ELSE ScanFrom(h, hist, n, Len(PartsOf(h, ContentAt(h, hist, n))), st)

BackwardScan(h, hist) == ScanHistory(h, hist, ScanInit)

\* faulty variant: the comparison of the hysteresis trigger is inverted
BelowHysteresisInverted(totalPrunableTokens) ==
    totalPrunableTokens > HYSTERESIS_THRESHOLD

\* step 2, the hysteresis trigger: TRUE when mask returns without masking
BelowHysteresis(totalPrunableTokens) ==
    totalPrunableTokens < HYSTERESIS_THRESHOLD

-----------------------------------------------------------------------------
(* mask(), step 3: offloading and masking *)

\* config.storage.getHistoryDir(), as the test's configuration answers it
HistoryDir == Lit("/mock/history")

\* path.join(config.storage.getHistoryDir(), OBSERVATION_DIR)
ObservationDir == PathJoin(HistoryDir, Lit(OBSERVATION_DIR))

\* what Date.now() may answer, and what Math.random() may draw
Times == {1, 2}
Randoms == {1, 2}

\* Date.now().toString(): thirteen digits
NowString(t) == <<[c |-> "#now", n |-> 13, f |-> <<t>>]>>

\* Math.random().toString(36).substring(7)
RandomSuffix(r) == <<[c |-> "#random", n |-> 6, f |-> <<r>>]>>

\* response['callId']?.toString() || Date.now().toString()
CallIdString(callIdValue, now) ==
    LET str == IF callIdValue.t \in {"undefined", "null"} THEN <<>>
               ELSE TemplateString(callIdValue)
    IN  IF str # <<>> THEN str ELSE NowString(now)

\* `${toolName}_${callId}_${random}.txt`
FileName(toolName, callId, random) ==
    TemplateString(toolName) \o Lit("_") \o callId \o Lit("_")
        \o RandomSuffix(random) \o Lit(".txt")

\* faulty variant: no copy is made: the array itself is used
ShallowCopyAlias(h, a) == [heap |-> h, addr |-> a]

\* [...array]: a new array with the same elements
ShallowCopy(h, a) == [heap |-> Append(h, Array(h[a].e)), addr |-> Len(h) + 1]

\* a new object with the given fields
NewObject(h, fields) == [heap |-> Append(h, Object(fields)), addr |-> Len(h) + 1]

\* array[index] = element, in place
SetElement(h, a, index, element) == [h EXCEPT ![a].e[index] = element]

\* the key of the payload that receives the snippet: the `in` chain of step 3
ReplacedKey(fields) ==
    IF "output" \in DOMAIN fields THEN "output"
    ELSE IF "result" \in DOMAIN fields THEN "result"
    ELSE IF "stdout" \in DOMAIN fields THEN "stdout"
    ELSE IF "content" \in DOMAIN fields THEN "content"
    ELSE "output"

\* one entry of the log of the effects of an invocation on its collaborators
Effect(op, path, data, event) ==
    [op |-> op, path |-> path, data |-> data, event |-> event]

\* await fsPromises.mkdir(dir, { recursive: true }), which may reject
Mkdir(dir, fails) ==
    IF fails THEN Effect("mkdir failed", dir, <<>>, <<>>)
    ELSE Effect("mkdir", dir, <<>>, <<>>)

\* await fsPromises.writeFile(filePath, content, 'utf-8'), which may reject
WriteFile(filePath, content, fails) ==
    IF fails THEN Effect("writeFile failed", <<>>, <<>>, <<>>)
    ELSE Effect("writeFile", filePath, content, <<>>)

\* logObservationMasking(config, event), which may throw
LogObservationMasking(event, fails) ==
    IF fails THEN Effect("telemetry failed", <<>>, <<>>, event)
    ELSE Effect("telemetry", <<>>, <<>>, event)

\* the objects an item points at: newHistory[contentIndex], its parts array,
\* the part, its functionResponse, the tool name and the response
Target(h, newHistory, item) ==
    LET contentRecord == h[newHistory].e[item.contentIndex]
        parts == Get(h, contentRecord, "parts").a
        part == h[parts].e[item.partIndex]
        fr == Get(h, part, "functionResponse").a
    IN  [contentRecord |-> contentRecord, parts |-> parts, part |-> part,
         fr |-> fr, toolName |-> Get(h, fr, "name"),
         response |-> Get(h, fr, "response")]

\* path.join(observationDir, fileName) for the item
FilePath(h, t, draw) ==
    PathJoin(ObservationDir,
             FileName(t.toolName,
                      CallIdString(IF t.response.t = "object"
                                   THEN Get(h, t.response.a, "callId")
                                   ELSE Undefined,
                                   draw.now),
                      draw.rand))

\* this.formatMaskedSnippet(content, filePath, toolName ?? 'unknown_tool',
\* tokens)
MaskedSnippet(item, filePath, toolName) ==
    FormatMaskedSnippet(item.content, filePath,
                        IF toolName.t \in {"undefined", "null"}
                        THEN Lit("unknown_tool") ELSE TemplateString(toolName),
                        item.tokens)

\* const newParts = [...contentRecord.parts!]
CopyParts(h, t) ==
    LET newParts == ShallowCopy(h, t.parts)
    IN  [heap |-> newParts.heap, parts |-> newParts.addr]

\* newResponse: the snippet itself for a bare string, else a copy of the
\* payload with the snippet under the replaced key
WithNewResponse(a, t, maskedSnippet) ==
    LET originalFields == IF t.response.t = "object" THEN a.heap[t.response.a].f
                          ELSE <<>>
        o == NewObject(a.heap, Spread(originalFields, ReplacedKey(originalFields),
                                      Str(maskedSnippet)))
    IN  IF t.response.t = "string"
        THEN [heap |-> a.heap, parts |-> a.parts, response |-> Str(maskedSnippet)]
        ELSE [heap |-> o.heap, parts |-> a.parts, response |-> Ref(o.addr)]

\* { ...part.functionResponse, response: newResponse }
WithNewFunctionResponse(a, t) ==
    LET o == NewObject(a.heap, Spread(a.heap[t.fr].f, "response", a.response))
    IN  [heap |-> o.heap, parts |-> a.parts, fr |-> o.addr]

\* faulty variant: the new part is stored at the first index of newParts
WithNewPartAtFirst(a, t, partIndex) ==
    LET o == NewObject(a.heap,
                       Spread(a.heap[t.part].f, "functionResponse", Ref(a.fr)))
    IN  [heap |-> SetElement(o.heap, a.parts, 1, o.addr),
         parts |-> a.parts, part |-> o.addr]

\* newParts[partIndex] = { ...part, functionResponse: {...} }
WithNewPart(a, t, partIndex) ==
    LET o == NewObject(a.heap,
                       Spread(a.heap[t.part].f, "functionResponse", Ref(a.fr)))
    IN  [heap |-> SetElement(o.heap, a.parts, partIndex, o.addr),
         parts |-> a.parts, part |-> o.addr]

\* newHistory[contentIndex] = { ...contentRecord, parts: newParts }
WithNewContent(a, t, newHistory, contentIndex) ==
    LET o == NewObject(a.heap,
                       Spread(a.heap[t.contentRecord].f, "parts", Ref(a.parts)))
    IN  [heap |-> SetElement(o.heap, newHistory, contentIndex, o.addr),
         part |-> a.part]

\* faulty variant: the turn is read from the caller's history, not from
\* newHistory
MaskItemOfCallerTurn(st, item, draw) ==
    LET t == Target(st.heap, st.history, item)
        filePath == FilePath(st.heap, t, draw)
        a == WithNewContent(
                 WithNewPart(
                     WithNewFunctionResponse(
                         WithNewResponse(CopyParts(st.heap, t), t,
                             MaskedSnippet(item, filePath, t.toolName)),
                         t),
                     t, item.partIndex),
                 t, st.newHistory, item.contentIndex)
    IN  IF Len(st.replaced) + 1 = st.failAt
        THEN [st EXCEPT
                !.heap = a.heap,
                !.ops = Append(@, WriteFile(filePath, item.content, FALSE)),
                !.replaced = Append(@, a.part),
                !.estimated = Append(@, a.part),
                !.error = "estimate"]
        ELSE [st EXCEPT
                !.heap = a.heap,
                !.ops = Append(@, WriteFile(filePath, item.content, FALSE)),
                !.replaced = Append(@, a.part),
                !.estimated = Append(@, a.part),
                !.actualTokensSaved =
                    @ + (item.tokens - EstimateTokenCountSync(a.heap, a.part))]

\* the body of the loop of step 3 for one prunable item, from the naming of
\* its file on, the write having succeeded; st holds the heap, the effects so
\* far, history, newHistory, actualTokensSaved and the error thrown
MaskItem(st, item, draw) ==
    LET t == Target(st.heap, st.newHistory, item)
        filePath == FilePath(st.heap, t, draw)
        a == WithNewContent(
                 WithNewPart(
                     WithNewFunctionResponse(
                         WithNewResponse(CopyParts(st.heap, t), t,
                             MaskedSnippet(item, filePath, t.toolName)),
                         t),
                     t, item.partIndex),
                 t, st.newHistory, item.contentIndex)
    IN  IF Len(st.replaced) + 1 = st.failAt
        THEN [st EXCEPT
                !.heap = a.heap,
                !.ops = Append(@, WriteFile(filePath, item.content, FALSE)),
                !.replaced = Append(@, a.part),
                !.estimated = Append(@, a.part),
                !.error = "estimate"]
        ELSE [st EXCEPT
                !.heap = a.heap,
                !.ops = Append(@, WriteFile(filePath, item.content, FALSE)),
                !.replaced = Append(@, a.part),
                !.estimated = Append(@, a.part),
                !.actualTokensSaved =
                    @ + (item.tokens - EstimateTokenCountSync(a.heap, a.part))]

\* the body of the loop of step 3 for the k-th prunable item: nothing when the
\* part has no functionResponse, the error when the write rejects
OffloadItem(st, item, draws, k, writeFails) ==
    LET contentRecord == st.heap[st.newHistory].e[item.contentIndex]
        part == PartsOf(st.heap, contentRecord)[item.partIndex]
    IN  IF ~Truthy(Get(st.heap, part, "functionResponse")) THEN st
        ELSE IF writeFails
        THEN [st EXCEPT !.error = "writeFile",
                        !.ops = Append(@, WriteFile(<<>>, <<>>, TRUE))]
        ELSE MaskItem(st, item, draws[k])

\* faulty variant: the loop ends after its first item
OffloadFirstOnly(st, items, k, draws, fault) ==
    IF k > Len(items) THEN st
    ELSE IF st.error # "" THEN st
    ELSE OffloadItem(st, items[k], draws, k,
                     fault.op = "writeFile" /\ fault.at = k)

\* faulty variant: the list is walked from its last item to its first
RECURSIVE OffloadFromOldestFirst(_, _, _, _, _)
OffloadFromOldestFirst(st, items, k, draws, fault) ==
    IF k > Len(items) THEN st
    ELSE IF st.error # "" THEN st
    ELSE OffloadFromOldestFirst(
             OffloadItem(st, items[Len(items) + 1 - k], draws, k,
                         fault.op = "writeFile" /\ fault.at = k),
             items, k + 1, draws, fault)

\* for (const item of prunableParts): items k.. of the list
RECURSIVE OffloadFrom(_, _, _, _, _)
OffloadFrom(st, items, k, draws, fault) ==
    IF k > Len(items) THEN st
    ELSE IF st.error # "" THEN st
    ELSE OffloadFrom(
             OffloadItem(st, items[k], draws, k,
                         fault.op = "writeFile" /\ fault.at = k),
             items, k + 1, draws, fault)

-----------------------------------------------------------------------------
(* mask(history, config) as a whole *)

NoCall == [status |-> "none"]

NoFault == [op |-> "none", at |-> 0]

\* the operations of an invocation that can fail once it has passed the
\* gate: mkdir, the writeFile of the k-th prunable item, the estimate of the
\* part put in the place of the k-th item, and the telemetry logger
Faults(n) ==
    {NoFault, [op |-> "mkdir", at |-> 0], [op |-> "telemetry", at |-> 0]}
        \cup {[op |-> "writeFile", at |-> k] : k \in 1..n}
        \cup {[op |-> "reestimate", at |-> k] : k \in 1..n}

\* the calls of the estimator during the scan that can fail: the k-th of m
ScanFaults(m) == {[op |-> "estimate", at |-> k] : k \in 1..m}

\* the number of items whose file is written before the fault stops the loop
Written(fault, n) ==
    IF fault.op \in {"mkdir", "estimate"} THEN 0
    ELSE IF fault.op = "writeFile" THEN fault.at - 1
    ELSE IF fault.op = "reestimate" THEN fault.at
    ELSE n

\* what Date.now() and Math.random() answer for each of n items; the
\* invocation is taken to run within one tick of the clock
Draws(n) ==
    {d \in [1..n -> [now : Times, rand : Randoms]] :
        \A k \in 1..n : d[k].now = d[1].now}

\* faulty variant: tokens_after is given the tokens saved
EventSavedAsAfter(totalPrunableTokens, actualTokensSaved, maskedCount) ==
    <<totalPrunableTokens, actualTokensSaved, maskedCount, totalPrunableTokens>>

\* new ObservationMaskingEvent({...}) as <<tokens_before, tokens_after,
\* masked_count, total_prunable_tokens>>
ObservationMaskingEvent(totalPrunableTokens, actualTokensSaved, maskedCount) ==
    <<totalPrunableTokens, totalPrunableTokens - actualTokensSaved,
      maskedCount, totalPrunableTokens>>

\* the value mask() resolves to
MaskingResult(newHistory, maskedCount, tokensSaved) ==
    [newHistory |-> newHistory, maskedCount |-> maskedCount,
     tokensSaved |-> tokensSaved]

\* an invocation that returned without passing the gate
Unmasked(h, hist, scan) ==
    [heap |-> h,
     call |-> [status |-> "returned", history |-> hist, allocated |-> Len(h),
               scan |-> scan, passedGate |-> FALSE, ops |-> <<>>,
               replaced |-> <<>>, estimated |-> scan.estimated,
               error |-> "", result |-> MaskingResult(hist, 0, 0)]]

\* an invocation whose scan ended with the estimator throwing
ScanThrew(h, hist, scan) ==
    [heap |-> h,
     call |-> [status |-> "threw", history |-> hist, allocated |-> Len(h),
               scan |-> scan, passedGate |-> FALSE, ops |-> <<>>,
               replaced |-> <<>>, estimated |-> scan.estimated,
               error |-> scan.error, result |-> MaskingResult(0, 0, 0)]]

\* the heap without the objects allocated after the first n: what an
\* invocation that threw had allocated is unreachable
Collect(h, n) == SubSeq(h, 1, n)

\* faulty variant: an error of the offload loop is caught and what was done so far is
\* returned
MaskedCatchingErrors(st, hist, scan, fault) ==
    [heap |-> st.heap,
     call |-> [status |-> "returned", history |-> hist,
               allocated |-> st.allocated, scan |-> scan, passedGate |-> TRUE,
               ops |-> st.ops, replaced |-> st.replaced,
               estimated |-> st.estimated, error |-> "",
               result |-> MaskingResult(st.newHistory, Len(scan.prunableParts),
                                        st.actualTokensSaved)]]

\* an invocation that passed the gate: the state st its offload loop ended in
Masked(st, hist, scan, fault) ==
    LET n == Len(scan.prunableParts)
        event == ObservationMaskingEvent(scan.totalPrunableTokens,
                                         st.actualTokensSaved, n)
        threw(ops, error) ==
            [heap |-> Collect(st.heap, st.allocated),
             call |-> [status |-> "threw", history |-> hist,
                       allocated |-> st.allocated, scan |-> scan,
                       passedGate |-> TRUE, ops |-> ops,
                       replaced |-> st.replaced,
                       estimated |-> st.estimated, error |-> error,
                       result |-> MaskingResult(0, 0, 0)]]
    IN  IF st.error # "" THEN threw(st.ops, st.error)
        ELSE IF fault.op = "telemetry"
        THEN threw(Append(st.ops, LogObservationMasking(event, TRUE)),
                   "telemetry")
        ELSE [heap |-> st.heap,
              call |-> [status |-> "returned", history |-> hist,
                        allocated |-> st.allocated, scan |-> scan,
                        passedGate |-> TRUE,
                        ops |-> Append(st.ops,
                                       LogObservationMasking(event, FALSE)),
                        replaced |-> st.replaced,
                        estimated |-> st.estimated, error |-> "",
                        result |-> MaskingResult(st.newHistory, n,
                                                 st.actualTokensSaved)]]

\* mask(history, config): the heap it leaves and the record of the invocation:
\* how it ended, what it returned and its effects
MaskOutcome(h, hist, fault, draws) ==
    LET scan == IF fault.op = "estimate"
                THEN ScanHistory(h, hist, ScanFailingAt(fault.at))
                ELSE BackwardScan(h, hist)
        newHistory == ShallowCopy(h, hist)
        afterMkdir ==
            [heap |-> newHistory.heap, allocated |-> Len(h),
             replaced |-> <<>>, estimated |-> scan.estimated,
             failAt |-> IF fault.op = "reestimate" THEN fault.at ELSE 0,
             ops |-> <<Mkdir(ObservationDir, fault.op = "mkdir")>>,
             history |-> hist, newHistory |-> newHistory.addr,
             actualTokensSaved |-> 0,
             error |-> IF fault.op = "mkdir" THEN "mkdir" ELSE ""]
    IN  IF Len(h[hist].e) = 0 THEN Unmasked(h, hist, ScanInit)
        ELSE IF scan.error # "" THEN ScanThrew(h, hist, scan)
        ELSE IF BelowHysteresis(scan.totalPrunableTokens)
        THEN Unmasked(h, hist, scan)
        ELSE Masked(OffloadFrom(afterMkdir, scan.prunableParts, 1, draws, fault),
                    hist, scan, fault)

-----------------------------------------------------------------------------
(* ProjectRegistry: names, paths and short identifiers *)

\* A name is a sequence of symbols: the lower-case letters "a", "b", "c", "g",
\* "x", the upper-case letter "G", the digits, "-", "!" (a character that is
\* neither letter nor digit) and the word "project". A path is a sequence of
\* names, "." and ".." among them.
DigitSymbols == <<"0", "1", "2", "3", "4", "5", "6", "7", "8", "9">>

\* String(counter)
RECURSIVE Decimal(_)
Decimal(n) ==
    IF n < 10 THEN <<DigitSymbols[n + 1]>>
    ELSE Decimal(n \div 10) \o <<DigitSymbols[(n % 10) + 1]>>

\* text.toLowerCase()
ToLowerCase(text) == [i \in DOMAIN text |-> IF text[i] = "G" THEN "g" ELSE text[i]]

\* .replace(/[^a-z0-9]/g, '-')
ReplaceNonAlphanumeric(text) ==
    [i \in DOMAIN text |->
        IF text[i] \in {"a", "b", "c", "g", "x", "project"}
               \cup {DigitSymbols[d] : d \in DOMAIN DigitSymbols}
        THEN text[i] ELSE "-"]

\* .replace(/-+/g, '-')
RECURSIVE CollapseDashes(_)
CollapseDashes(text) ==
    IF Len(text) < 2 THEN text
    ELSE IF text[1] = "-" /\ text[2] = "-" THEN CollapseDashes(Tail(text))
    ELSE <<text[1]>> \o CollapseDashes(Tail(text))

\* .replace(/^-|-$/g, '')
TrimDashes(text) ==
    LET start == IF text # <<>> /\ text[1] = "-" THEN Tail(text) ELSE text
    IN  IF start # <<>> /\ start[Len(start)] = "-"
        THEN SubSeq(start, 1, Len(start) - 1)
        ELSE start

\* slugify(text)
Slugify(text) ==
    LET slug == TrimDashes(CollapseDashes(
                    ReplaceNonAlphanumeric(ToLowerCase(text))))
    IN  IF slug = <<>> THEN <<"project">> ELSE slug

\* path.resolve(projectPath) of an absolute path: "." and ".." are resolved
RECURSIVE Resolve(_, _)
Resolve(done, rest) ==
    IF rest = <<>> THEN done
    ELSE IF Head(rest) = <<".">> THEN Resolve(done, Tail(rest))
    ELSE IF Head(rest) = <<"..">>
         THEN Resolve(IF done = <<>> THEN done
                      ELSE SubSeq(done, 1, Len(done) - 1), Tail(rest))
    ELSE Resolve(Append(done, Head(rest)), Tail(rest))

\* normalizePath(projectPath)
NormalizePath(os, projectPath) ==
    LET resolved == Resolve(<<>>, projectPath)
    IN  IF os = "win32"
        THEN [i \in DOMAIN resolved |-> ToLowerCase(resolved[i])]
        ELSE resolved

\* path.basename(projectPath): empty for the root
Basename(projectPath) ==
    IF projectPath = <<>> THEN <<>> ELSE projectPath[Len(projectPath)]

\* Object.values(existing)
ObjectValues(existing) == {existing[key] : key \in DOMAIN existing}

\* faulty variant: the candidate is returned without looking at the
\* identifiers in use
NextCandidateUnchecked(slug, counter, existingIds) ==
    slug \o <<"-">> \o Decimal(counter)

\* the while loop of generateUniqueShortId from a counter on
RECURSIVE NextCandidate(_, _, _)
NextCandidate(slug, counter, existingIds) ==
    LET candidate == slug \o <<"-">> \o Decimal(counter)
    IN  IF candidate \in existingIds
        THEN NextCandidate(slug, counter + 1, existingIds)
        ELSE candidate

\* generateUniqueShortId(projectPath, existing)
GenerateUniqueShortId(projectPath, existing) ==
    LET baseName == IF Basename(projectPath) = <<>> THEN <<"project">>
                    ELSE Basename(projectPath)
        slug == Slugify(baseName)
        existingIds == ObjectValues(existing)
    IN  IF slug \in existingIds THEN NextCandidate(slug, 1, existingIds)
        ELSE slug

-----------------------------------------------------------------------------
(* ProjectRegistry: the registry file and the instances *)

\* the instances: the tests' registry1 and registry2 on one registryPath
Registries == {"registry1", "registry2"}

Platforms == {"linux", "win32"}

\* the project paths getShortId is called with: /a/g, /b/g, /a/G,
\* /a/../a/./g and /c/!G!!1! (whose slug is g-1)
ProjectPaths ==
    {<<<<"a">>, <<"g">>>>,
     <<<<"b">>, <<"g">>>>,
     <<<<"a">>, <<"G">>>>,
     <<<<"a">>, <<"..">>, <<"a">>, <<".">>, <<"g">>>>,
     <<<<"c">>, <<"!", "G", "!", "!", "1", "!">>>>}

\* this.data of an instance that is not initialized
NoData == [initialized |-> FALSE, hasProjects |-> FALSE, projects |-> <<>>]

\* { projects: {...} }
RegistryData(projects) ==
    [initialized |-> TRUE, hasProjects |-> TRUE, projects |-> projects]

\* what JSON.parse gives for the text {}: an object without projects
DataWithoutProjects ==
    [initialized |-> TRUE, hasProjects |-> FALSE, projects |-> <<>>]

\* what the registry file is: its directory missing, the file missing, a
\* file with the text of a registry, or a file that holds something else
NoDirectory == [kind |-> "no directory", text |-> {}]
NoFile == [kind |-> "no file", text |-> {}]
FileWith(text) == [kind |-> "file", text |-> text]

\* what else the file may hold: a text that is no JSON, the JSON text null,
\* the JSON text {}
OtherContents == {"not JSON", "null", "{}"}

FileHolding(content) == [kind |-> content, text |-> {}]

\* fs.existsSync(this.registryPath)
RegistryFileExists(file) == file.kind \notin {"no directory", "no file"}

\* JSON.stringify(this.data, null, 2): the text lists the entries of projects
JsonStringify(data) ==
    {<<key, data.projects[key]>> : key \in DOMAIN data.projects}

\* JSON.parse(content) of such a text
JsonParse(text) ==
    RegistryData([key \in {entry[1] : entry \in text} |->
                     (CHOOSE entry \in text : entry[1] = key)[2]])

\* initialize(): nothing when data is set, a fresh registry when the file is
\* missing, cannot be read or cannot be parsed, else the parsed file,
\* whatever its shape: null leaves this.data falsy
InitializeData(data, file, readFails) ==
    IF data.initialized THEN data
    ELSE IF ~RegistryFileExists(file) THEN RegistryData(<<>>)
    ELSE IF readFails \/ file.kind = "not JSON" THEN RegistryData(<<>>)
    ELSE IF file.kind = "null" THEN NoData
    ELSE IF file.kind = "{}" THEN DataWithoutProjects
    ELSE JsonParse(file.text)

\* what can fail in save()
SaveFaults == {"none", "mkdirSync", "writeFileSync", "renameSync"}

\* save(): the file afterwards; a failed write or rename is caught and logged
SaveFile(data, file, fault) ==
    IF ~data.initialized THEN file
    ELSE IF file.kind = "no directory" /\ fault = "mkdirSync" THEN file
    ELSE IF fault \in {"writeFileSync", "renameSync"}
    THEN IF file.kind = "no directory" THEN NoFile ELSE file
    ELSE FileWith(JsonStringify(data))

\* the operations of save() that are reached and so can fail: none when
\* getShortId does not save, mkdirSync only when the directory is missing
ReachedBySave(os, data, file, projectPath) ==
    IF \/ ~data.initialized
       \/ ~data.hasProjects
       \/ NormalizePath(os, projectPath) \in DOMAIN data.projects
    THEN {"none"}
    ELSE IF file.kind = "no directory" THEN SaveFaults
    ELSE SaveFaults \ {"mkdirSync"}

\* save() throws: only mkdirSync is outside the try block
SaveThrows(file, fault) == file.kind = "no directory" /\ fault = "mkdirSync"

\* the record of a getShortId call: the normalized path, what it returned or
\* threw
NoShortId == [path |-> <<>>, id |-> <<>>, error |-> ""]

ShortIdOutcome(normalizedPath, id, error) ==
    [path |-> normalizedPath, id |-> id, error |-> error]

\* faulty variant: getShortId without the test of this.data
GetShortIdOutcomeUnchecked(os, data, file, projectPath, fault) ==
    LET normalizedPath == NormalizePath(os, projectPath)
        shortId == GenerateUniqueShortId(normalizedPath, data.projects)
        assigned == RegistryData(
                        [key \in DOMAIN data.projects \cup {normalizedPath} |->
                            IF key = normalizedPath THEN shortId
                            ELSE data.projects[key]])
    IN  IF normalizedPath \in DOMAIN data.projects
        THEN [data |-> data, file |-> file,
              call |-> ShortIdOutcome(normalizedPath,
                                      data.projects[normalizedPath], "")]
        ELSE [data |-> assigned,
              file |-> FileWith(JsonStringify(assigned)),
              call |-> ShortIdOutcome(normalizedPath, shortId, "")]

\* getShortId(projectPath) on an instance: its data, the file and the outcome
GetShortIdOutcome(os, data, file, projectPath, fault) ==
    LET normalizedPath == NormalizePath(os, projectPath)
        shortId == GenerateUniqueShortId(normalizedPath, data.projects)
        assigned == RegistryData(
                        [key \in DOMAIN data.projects \cup {normalizedPath} |->
                            IF key = normalizedPath THEN shortId
                            ELSE data.projects[key]])
    IN  IF ~data.initialized
        THEN [data |-> data, file |-> file,
              call |-> ShortIdOutcome(<<>>, <<>>,
                           "ProjectRegistry must be initialized before use")]
        ELSE IF ~data.hasProjects
        THEN [data |-> data, file |-> file,
              call |-> ShortIdOutcome(normalizedPath, <<>>, "TypeError")]
        ELSE IF normalizedPath \in DOMAIN data.projects
        THEN [data |-> data, file |-> file,
              call |-> ShortIdOutcome(normalizedPath,
                                      data.projects[normalizedPath], "")]
        ELSE [data |-> assigned,
              file |-> SaveFile(assigned, file, fault),
              call |-> IF SaveThrows(file, fault)
                       THEN ShortIdOutcome(normalizedPath, <<>>, "mkdirSync")
                       ELSE ShortIdOutcome(normalizedPath, shortId, "")]

\* the terminal part at rest: nothing read, nobody subscribed, no event
TerminalAtRest ==
    /\ buffer = <<>>
    /\ subscribers = <<>>
    /\ dataEvent = [status |-> "none"]
    /\ dataEvents = 0

\* the masking part at rest: an empty history, no invocation
MaskAtRest ==
    /\ heap = <<Array(<<>>)>>
    /\ history = 1
    /\ call = NoCall
    /\ maskRuns = 0
    /\ offloaded = {}

\* the migration part at rest: no directory, no call
MigrationAtRest ==
    /\ disk = <<>>
    /\ migration = [version |-> "none"]
    /\ migrations = 0

\* the /plan part at rest: no configuration, no plans directory, no invocation
PlanAtRest ==
    /\ planConfig = [present |-> FALSE, planEnabled |-> FALSE,
                     approvalMode |-> ""]
    /\ plansDir = [exists |-> FALSE, entries |-> <<>>]
    /\ planCall = [status |-> "none"]
    /\ planCalls = 0

\* the registry part at rest: no file, no instance initialized, no call
RegistryAtRest ==
    /\ platform = "linux"
    /\ registryFile = NoFile
    /\ registries = [r \in Registries |-> NoData]
    /\ lastShortId = NoShortId
    /\ shortIdCalls = 0
    /\ firstShortIds = <<>>

\* a platform, a registry path whose directory may be missing, and two
\* instances constructed
RegistryInit ==
    /\ TerminalAtRest
    /\ MaskAtRest
    /\ MigrationAtRest
    /\ PlanAtRest
    /\ platform \in Platforms
    /\ registryFile \in {NoDirectory, NoFile}
                           \cup {FileHolding(content) : content \in OtherContents}
    /\ registries = [r \in Registries |-> NoData]
    /\ lastShortId = NoShortId
    /\ shortIdCalls = 0
    /\ firstShortIds = <<>>

\* new ProjectRegistry(registryPath) in the place of an instance
NewProjectRegistry ==
    /\ \E r \in Registries :
         /\ registries[r].initialized
         /\ registries' = [registries EXCEPT ![r] = NoData]
    /\ UNCHANGED <<platform, registryFile, lastShortId, shortIdCalls,
                   firstShortIds>>
    /\ UNCHANGED <<maskVars, migrationVars, planVars, terminalVars>>

\* registry.initialize()
Initialize ==
    /\ \E r \in Registries : \E readFails \in BOOLEAN :
         /\ readFails => /\ RegistryFileExists(registryFile)
                         /\ ~registries[r].initialized
         /\ registries' =
                [registries EXCEPT
                    ![r] = InitializeData(registries[r], registryFile,
                                          readFails)]
    /\ UNCHANGED <<platform, registryFile, lastShortId, shortIdCalls,
                   firstShortIds>>
    /\ UNCHANGED <<maskVars, migrationVars, planVars, terminalVars>>

\* registry.getShortId(projectPath)
GetShortId ==
    /\ shortIdCalls < MaxShortIdCalls
    /\ \E r \in Registries : \E projectPath \in ProjectPaths :
       \E fault \in ReachedBySave(platform, registries[r], registryFile,
                                   projectPath) :
         LET out == GetShortIdOutcome(platform, registries[r], registryFile,
                                      projectPath, fault)
         IN  /\ registries' = [registries EXCEPT ![r] = out.data]
             /\ registryFile' = out.file
             /\ lastShortId' = out.call
             /\ firstShortIds' =
                    IF out.call.error # ""
                           \/ out.call.path \in DOMAIN firstShortIds
                    THEN firstShortIds
                    ELSE [key \in DOMAIN firstShortIds \cup {out.call.path} |->
                             IF key = out.call.path THEN out.call.id
                             ELSE firstShortIds[key]]
    /\ shortIdCalls' = shortIdCalls + 1
    /\ UNCHANGED platform
    /\ UNCHANGED <<maskVars, migrationVars, planVars, terminalVars>>

RegistryNext == NewProjectRegistry \/ Initialize \/ GetShortId

RegistrySpec == RegistryInit /\ [][RegistryNext]_vars

-----------------------------------------------------------------------------
(* StorageMigration.migrateDirectory on the directories below tempDir *)

\* the directories of the tests: tempDir/old-hash, tempDir/new-slug,
\* tempDir/sub and tempDir/sub/new-slug; tempDir itself always exists
Directories == {"old-hash", "new-slug", "sub", "sub/new-slug"}

\* path.dirname(newPath)
Dirname(dirPath) == IF dirPath = "sub/new-slug" THEN "sub" ELSE "tempDir"

\* a path with no directory, and a directory with its files
Missing == [exists |-> FALSE, files |-> {}]
Directory(files) == [exists |-> TRUE, files |-> files]

\* the files the tests write: test.txt, old.txt, new.txt
FileSets == {{}, {"test.txt"}, {"old.txt"}, {"new.txt"}}

\* fs.existsSync(path), and fs.access(path) resolving
ExistsSync(d, dirPath) == dirPath = "tempDir" \/ d[dirPath].exists

\* fs.mkdirSync(parentDir, { recursive: true }) when it succeeds
MkdirRecursive(d, parentDir) ==
    IF ExistsSync(d, parentDir) THEN d
    ELSE [d EXCEPT ![parentDir] = Directory({})]

\* fs.renameSync(oldPath, newPath) when it succeeds
Rename(d, oldPath, newPath) ==
    [d EXCEPT ![newPath] = d[oldPath], ![oldPath] = Missing]

\* what can fail in migrateDirectory: the creation of the parent, the rename,
\* and an existence check, which then answers that a path that exists does
\* not (existsSync returns false, access rejects); with the check of the new
\* path failing, the rename may fail as well
MigrationFaults ==
    {"none", "mkdir", "rename", "access old", "access new",
     "access new, rename"}

\* fs.renameSync(oldPath, newPath) succeeds: newPath is missing, or it is an
\* empty directory, which the old one replaces
RenameSucceeds(d, newPath, fault) ==
    /\ fault \notin {"rename", "access new, rename"}
    /\ d[newPath].exists => d[newPath].files = {}

\* what a call leaves: the directories, whether the catch block logged and
\* whether an error reached the caller
MigrationResult(d, logged, threw) ==
    [disk |-> d, logged |-> logged, threw |-> threw]

\* the record of a migrateDirectory call: the version called, the paths, the
\* directories before the call, what failed, whether the catch block logged
\* and whether the call threw
MigrationOutcome(version, oldPath, newPath, before, fault, out) ==
    [version |-> version, oldPath |-> oldPath, newPath |-> newPath,
     before |-> before, fault |-> fault, logged |-> out.logged,
     threw |-> out.threw]

\* faulty variant: the new path is not looked at
MigrateDirectoryOverwriting(d, oldPath, newPath, fault) ==
    IF ~ExistsSync(d, oldPath)
    THEN MigrationResult(d, FALSE, FALSE)
    ELSE MigrationResult(Rename(MkdirRecursive(d, Dirname(newPath)), oldPath,
                                newPath),
                         FALSE, FALSE)

\* the synchronous migrateDirectory(oldPath, newPath): the directories
\* afterwards and whether the catch block was entered
MigrateDirectorySync(d, oldPath, newPath, fault) ==
    LET newExists == ExistsSync(d, newPath)
                         /\ fault \notin {"access new", "access new, rename"}
        oldExists == ExistsSync(d, oldPath) /\ fault # "access old"
    IN  IF newExists \/ ~oldExists
        THEN MigrationResult(d, FALSE, FALSE)
        ELSE IF fault = "mkdir" THEN MigrationResult(d, TRUE, FALSE)
        ELSE IF ~RenameSucceeds(d, newPath, fault)
        THEN MigrationResult(MkdirRecursive(d, Dirname(newPath)), TRUE, FALSE)
        ELSE MigrationResult(Rename(MkdirRecursive(d, Dirname(newPath)),
                                    oldPath, newPath),
                             FALSE, FALSE)

\* faulty variant: mkdir and rename are awaited outside the try block
MigrateDirectoryAsyncUncaught(d, oldPath, newPath, fault) ==
    LET newExists == ExistsSync(d, newPath)
                         /\ fault \notin {"access new", "access new, rename"}
        oldExists == ExistsSync(d, oldPath) /\ fault # "access old"
        made == MkdirRecursive(d, Dirname(newPath))
    IN  IF newExists THEN MigrationResult(d, FALSE, FALSE)
        ELSE IF ~oldExists THEN MigrationResult(d, FALSE, FALSE)
        ELSE IF fault = "mkdir" THEN MigrationResult(d, FALSE, TRUE)
        ELSE IF ~RenameSucceeds(d, newPath, fault)
        THEN MigrationResult(made, FALSE, TRUE)
        ELSE MigrationResult(Rename(made, oldPath, newPath), FALSE, FALSE)

\* the asynchronous migrateDirectory(oldPath, newPath): access(newPath)
\* resolving returns, access(oldPath) rejecting returns, then mkdir and
\* rename inside the outer try
MigrateDirectoryAsync(d, oldPath, newPath, fault) ==
    LET newExists == ExistsSync(d, newPath)
                         /\ fault \notin {"access new", "access new, rename"}
        oldExists == ExistsSync(d, oldPath) /\ fault # "access old"
        made == MkdirRecursive(d, Dirname(newPath))
    IN  IF newExists THEN MigrationResult(d, FALSE, FALSE)
        ELSE IF ~oldExists THEN MigrationResult(d, FALSE, FALSE)
        ELSE IF fault = "mkdir" THEN MigrationResult(d, TRUE, FALSE)
        ELSE IF ~RenameSucceeds(d, newPath, fault)
        THEN MigrationResult(made, TRUE, FALSE)
        ELSE MigrationResult(Rename(made, oldPath, newPath), FALSE, FALSE)

\* the operations of a call that are reached and so can fail
ReachedByMigration(d, oldPath, newPath) ==
    IF ExistsSync(d, newPath)
    THEN IF ExistsSync(d, oldPath)
         THEN {"none", "access new", "access new, rename"}
         ELSE {"none", "access new"}
    ELSE IF ExistsSync(d, oldPath)
         THEN {"none", "access old", "mkdir", "rename"}
         ELSE {"none"}

\* the paths migrateDirectory is called with
OldPaths == {"old-hash"}
NewPaths == {"new-slug", "sub/new-slug"}

\* the directories a test has made before the call: sub/new-slug only
\* inside sub
MigrationInit ==
    /\ TerminalAtRest
    /\ MaskAtRest
    /\ RegistryAtRest
    /\ PlanAtRest
    /\ disk \in [Directories -> {Missing} \cup {Directory(f) : f \in FileSets}]
    /\ disk["sub"] \in {Missing, Directory({})}
    /\ disk["sub/new-slug"].exists => disk["sub"].exists
    /\ migration = [version |-> "none"]
    /\ migrations = 0

\* StorageMigration.migrateDirectory(oldPath, newPath), synchronous version
MigrateDirectory ==
    /\ migrations < MaxMigrations
    /\ \E oldPath \in OldPaths : \E newPath \in NewPaths :
       \E fault \in ReachedByMigration(disk, oldPath, newPath) :
         LET out == MigrateDirectorySync(disk, oldPath, newPath, fault)
         IN  /\ disk' = out.disk
             /\ migration' = MigrationOutcome("sync", oldPath, newPath, disk,
                                               fault, out)
    /\ migrations' = migrations + 1
    /\ UNCHANGED <<maskVars, registryVars, planVars, terminalVars>>

\* await StorageMigration.migrateDirectory(oldPath, newPath), asynchronous
\* version
AwaitMigrateDirectory ==
    /\ migrations < MaxMigrations
    /\ \E oldPath \in OldPaths : \E newPath \in NewPaths :
       \E fault \in ReachedByMigration(disk, oldPath, newPath) :
         LET out == MigrateDirectoryAsync(disk, oldPath, newPath, fault)
         IN  /\ disk' = out.disk
             /\ migration' = MigrationOutcome("async", oldPath, newPath, disk,
                                               fault, out)
    /\ migrations' = migrations + 1
    /\ UNCHANGED <<maskVars, registryVars, planVars, terminalVars>>

MigrationNext == MigrateDirectory \/ AwaitMigrateDirectory

MigrationSpec == MigrationInit /\ [][MigrationNext]_vars

-----------------------------------------------------------------------------
(* The /plan command: planCommand.action(context) *)

\* file names as sequences of pieces, the last piece being the extension:
\* the tests' old-plan.md, new-plan.md and not-a-plan.txt, and a backup
\* old-plan.md.bak
PlanFileNames ==
    {<<"old-plan", ".md">>, <<"new-plan", ".md">>, <<"not-a-plan", ".txt">>,
     <<"old-plan", ".md", ".bak">>}

\* the modification times of the tests
Mtimes == {1000, 2000}

\* f.endsWith('.md')
EndsWithMd(file) == Len(file) > 0 /\ file[Len(file)] = ".md"

\* what readFile answers for a file
PlanContent(file) == <<"content of">> \o file

\* the plans directory: missing, or its entries in the order readdir lists
\* them
NoPlansDir == [exists |-> FALSE, entries |-> <<>>]
PlansDirWith(entries) == [exists |-> TRUE, entries |-> entries]

\* the directories of at most MaxPlanFiles entries, no name twice
PlansDirs ==
    {NoPlansDir} \cup
    {PlansDirWith(entries) :
        entries \in
            {e \in UNION {[1..n -> [file : PlanFileNames, mtime : Mtimes]] :
                              n \in 0..MaxPlanFiles} :
                \A i \in DOMAIN e : \A j \in DOMAIN e :
                    e[i].file = e[j].file => i = j}}

\* context.services.config: absent, or a configuration
NoConfig == [present |-> FALSE, planEnabled |-> FALSE, approvalMode |-> ""]
Config(planEnabled, approvalMode) ==
    [present |-> TRUE, planEnabled |-> planEnabled,
     approvalMode |-> approvalMode]

\* faulty variant: plan mode counts as enabled whatever the settings say
IsPlanEnabledAlways(config) == TRUE

\* config.isPlanEnabled()
IsPlanEnabled(config) == config.planEnabled

\* config.setApprovalMode(ApprovalMode.PLAN)
SetApprovalMode(config, mode) == [config EXCEPT !.approvalMode = mode]

\* coreEvents.emitFeedback(severity, message): the message as its fixed text
\* and what is interpolated into it
Feedback(severity, text, arg) ==
    [severity |-> severity, text |-> text, arg |-> arg]

NotEnabledFeedback ==
    Feedback("error", "Plan mode is experimental. Enable it in your settings (experimental.plan) to use this command.", <<>>)
SwitchedFeedback == Feedback("info", "Switched to Plan Mode.", <<>>)
NoPlansFeedback == Feedback("info", "No plans found.", <<>>)
LatestPlanFeedback(file) == Feedback("info", "Latest Plan: ", file)
FailedFeedback(operation) ==
    Feedback("error", "Failed to read plans: ", <<operation>>)

\* files.filter((f) => f.endsWith('.md'))
PlanFiles(entries) == SelectSeq(entries, LAMBDA e : EndsWithMd(e.file))

\* faulty variant: the oldest plan comes first
InsertByMtimeAscending(sorted, plan) ==
    LET before == SelectSeq(sorted, LAMBDA e : e.mtime <= plan.mtime)
        after == SelectSeq(sorted, LAMBDA e : e.mtime > plan.mtime)
    IN  before \o <<plan>> \o after

\* a plan put in its place in a list sorted by (a, b) => b.mtime - a.mtime:
\* behind the plans that are not older (the sort is stable)
InsertByMtime(sorted, plan) ==
    LET before == SelectSeq(sorted, LAMBDA e : e.mtime >= plan.mtime)
        after == SelectSeq(sorted, LAMBDA e : e.mtime < plan.mtime)
    IN  before \o <<plan>> \o after

\* sortedPlans.sort((a, b) => b.mtime - a.mtime)
RECURSIVE SortPlans(_)
SortPlans(plans) ==
    IF plans = <<>> THEN <<>>
    ELSE InsertByMtime(SortPlans(SubSeq(plans, 1, Len(plans) - 1)),
                       plans[Len(plans)])

\* the reads of the plans directory that can fail
PlanFaults == {"none", "readdir", "stat", "readFile"}

\* the record of an invocation: the configuration before it, the read that
\* failed, the calls made in their order, the feedback emitted, the items
\* added to the UI and the reads of the file system
PlanOutcome(before, fault, trace, feedback, items, reads) ==
    [status |-> "returned", before |-> before, fault |-> fault,
     trace |-> trace, feedback |-> feedback, items |-> items, reads |-> reads]

\* the calls of the try block in their order: the reads, then the feedback,
\* then the item added to the UI
TraceOf(shown) ==
    [k \in DOMAIN shown.reads |-> shown.reads[k][1]]
        \o [k \in DOMAIN shown.feedback |-> "emitFeedback"]
        \o [k \in DOMAIN shown.items |-> "addItem"]

\* the try block of the action: the feedback, the UI items and the reads
ShowLatestPlan(dir, fault) ==
    LET planFiles == PlanFiles(dir.entries)
        stats == [k \in DOMAIN planFiles |-> <<"stat", planFiles[k].file>>]
        latestPlan == SortPlans(planFiles)[1]
        listed == <<<<"existsSync">>, <<"readdir">>>>
    IN  IF ~dir.exists
        THEN [feedback |-> <<NoPlansFeedback>>, items |-> <<>>,
              reads |-> <<<<"existsSync">>>>]
        ELSE IF fault = "readdir"
        THEN [feedback |-> <<FailedFeedback("readdir")>>, items |-> <<>>,
              reads |-> listed]
        ELSE IF planFiles = <<>>
        THEN [feedback |-> <<NoPlansFeedback>>, items |-> <<>>,
              reads |-> listed]
        ELSE IF fault = "stat"
        THEN [feedback |-> <<FailedFeedback("stat")>>, items |-> <<>>,
              reads |-> listed \o stats]
        ELSE IF fault = "readFile"
        THEN [feedback |-> <<FailedFeedback("readFile")>>, items |-> <<>>,
              reads |-> listed \o stats \o <<<<"readFile", latestPlan.file>>>>]
        ELSE [feedback |-> <<LatestPlanFeedback(latestPlan.file)>>,
              items |-> <<PlanContent(latestPlan.file)>>,
              reads |-> listed \o stats \o <<<<"readFile", latestPlan.file>>>>]

\* faulty variant: the approval mode is set after the plans have been shown
PlanActionSwitchingLast(config, dir, fault) ==
    LET shown == ShowLatestPlan(dir, fault)
    IN  IF ~config.present
        THEN [config |-> config,
              call |-> PlanOutcome(config, fault, <<>>, <<>>, <<>>, <<>>)]
        ELSE IF ~IsPlanEnabled(config)
        THEN [config |-> config,
              call |-> PlanOutcome(config, fault, <<"emitFeedback">>,
                                   <<NotEnabledFeedback>>, <<>>, <<>>)]
        ELSE [config |-> SetApprovalMode(config, "plan"),
              call |-> PlanOutcome(config, fault,
                                   TraceOf(shown)
                                       \o <<"setApprovalMode", "emitFeedback">>,
                                   shown.feedback \o <<SwitchedFeedback>>,
                                   shown.items, shown.reads)]

\* planCommand.action(context): the configuration afterwards and the record
\* of the invocation
PlanAction(config, dir, fault) ==
    LET shown == ShowLatestPlan(dir, fault)
    IN  IF ~config.present
        THEN [config |-> config,
              call |-> PlanOutcome(config, fault, <<>>, <<>>, <<>>, <<>>)]
        ELSE IF ~IsPlanEnabled(config)
        THEN [config |-> config,
              call |-> PlanOutcome(config, fault, <<"emitFeedback">>,
                                   <<NotEnabledFeedback>>, <<>>, <<>>)]
        ELSE [config |-> SetApprovalMode(config, "plan"),
              call |-> PlanOutcome(config, fault,
                                   <<"setApprovalMode", "emitFeedback">>
                                       \o TraceOf(shown),
                                   <<SwitchedFeedback>> \o shown.feedback,
                                   shown.items, shown.reads)]

\* the reads of an invocation that are reached and so can fail
ReachedByPlan(config, dir) ==
    IF ~config.present \/ ~IsPlanEnabled(config) \/ ~dir.exists THEN {"none"}
    ELSE IF PlanFiles(dir.entries) = <<>> THEN {"none", "readdir"}
    ELSE PlanFaults

\* a configuration or none, an approval mode, a plans directory
PlanInit ==
    /\ TerminalAtRest
    /\ MaskAtRest
    /\ RegistryAtRest
    /\ MigrationAtRest
    /\ planConfig \in {NoConfig} \cup
                       {Config(e, m) : e \in BOOLEAN, m \in {"default", "plan"}}
    /\ plansDir \in PlansDirs
    /\ planCall = [status |-> "none"]
    /\ planCalls = 0

\* the user enters /plan
PlanCommand ==
    /\ planCalls < MaxPlanCalls
    /\ \E fault \in ReachedByPlan(planConfig, plansDir) :
         LET out == PlanAction(planConfig, plansDir, fault)
         IN  /\ planConfig' = out.config
             /\ planCall' = out.call
    /\ planCalls' = planCalls + 1
    /\ UNCHANGED plansDir
    /\ UNCHANGED <<maskVars, registryVars, migrationVars, terminalVars>>

PlanNext == PlanCommand

PlanSpec == PlanInit /\ [][PlanNext]_vars

-----------------------------------------------------------------------------
(* TerminalProvider: the stdin listener and its subscribers *)

\* the handlers components subscribe
Handlers == {"h1", "h2"}

\* an OSC 11 response, ESC ] 11 ; rgb:<r>/<g>/<b> ESC \, as two pieces, so
\* that a chunk may end in the middle of a response: the 19 characters up to
\* and including the second slash, and the 6 characters from there
ResponseHead(r, g) == <<[c |-> "osc11 head", n |-> 19, f |-> <<r, g>>]>>
ResponseTail(b) == <<[c |-> "osc11 tail", n |-> 6, f |-> <<b>>]>>

Response(r, g, b) == ResponseHead(r, g) \o ResponseTail(b)

\* n characters that belong to no response
OtherInput(n) == <<Run("A", n)>>

\* what the terminal reports for a black and for a white background
Black == Response("0000", "0000", "0000")
White == Response("ffff", "ffff", "ffff")

\* the chunks stdin delivers: key presses and pasted text of 1, 1,024 and
\* 2,000 characters, a response in two chunks, a response in one chunk, bare,
\* after another character and before pasted text, and two responses in one
\* chunk
Chunks ==
    { OtherInput(1), OtherInput(1024), OtherInput(2000),
      ResponseHead("ffff", "ffff"), ResponseTail("ffff"),
      Black,
      Concat(OtherInput(1), White),
      Concat(White, OtherInput(2000)),
      Concat(Black, White) }

\* the places of text t where a complete response starts
ResponseStarts(t) ==
    {i \in 1..(Len(t) - 1) : t[i].c = "osc11 head" /\ t[i + 1].c = "osc11 tail"}

\* buffer.match(TerminalCapabilityManager.OSC_11_REGEX): the first complete
\* response of the text, the number of characters before it, its length and
\* its three colour components
Osc11Match(t) ==
    IF ResponseStarts(t) = {} THEN [found |-> FALSE]
    ELSE LET i == CHOOSE j \in ResponseStarts(t) :
                      \A k \in ResponseStarts(t) : j <= k
         IN  [found |-> TRUE,
              index |-> TextLen(SubSeq(t, 1, i - 1)),
              length |-> t[i].n + t[i + 1].n,
              groups |-> t[i].f \o t[i + 1].f]

\* `rgb:${match[1]}/${match[2]}/${match[3]}`
ColorStr(match) ==
    <<"rgb:", match.groups[1], "/", match.groups[2], "/", match.groups[3]>>

\* one run of handleData on the text kept so far: the buffer it leaves and the
\* calls of handlers it makes
HandleData(kept, subscribed, data) ==
    LET appended == Concat(kept, data)
        match == Osc11Match(appended)
    IN  IF match.found
        THEN [buffer |-> Drop(appended, match.index + match.length),
              calls |-> [i \in 1..Len(subscribed) |->
                            [handler |-> subscribed[i],
                             colorStr |-> ColorStr(match)]]]
        ELSE IF TextLen(appended) > 1024
        THEN [buffer |-> SliceTail(appended, 1024), calls |-> <<>>]
        ELSE [buffer |-> appended, calls |-> <<>>]

\* Set.prototype.add and Set.prototype.delete on the subscribers, a set that
\* is iterated in the order of insertion
SetAdd(set, h) ==
    IF \E i \in 1..Len(set) : set[i] = h THEN set ELSE Append(set, h)

SetDelete(set, h) == SelectSeq(set, LAMBDA x : x # h)

\* the provider mounted: nothing read, nobody subscribed
TerminalInit ==
    /\ MaskAtRest
    /\ RegistryAtRest
    /\ MigrationAtRest
    /\ PlanAtRest
    /\ TerminalAtRest

\* subscribe(handler)
Subscribe ==
    \E h \in Handlers :
        /\ subscribers' = SetAdd(subscribers, h)
        /\ UNCHANGED <<buffer, dataEvent, dataEvents>>
        /\ UNCHANGED <<maskVars, registryVars, migrationVars, planVars>>

\* unsubscribe(handler)
Unsubscribe ==
    \E h \in Handlers :
        /\ subscribers' = SetDelete(subscribers, h)
        /\ UNCHANGED <<buffer, dataEvent, dataEvents>>
        /\ UNCHANGED <<maskVars, registryVars, migrationVars, planVars>>

\* stdin emits 'data' and handleData runs to its end
StdinData ==
    /\ dataEvents < MaxDataEvents
    /\ \E data \in Chunks :
           LET out == HandleData(buffer, subscribers, data)
           IN  /\ buffer' = out.buffer
               /\ dataEvent' = [status |-> "handled",
                                data |-> data,
                                before |-> buffer,
                                subscribed |-> subscribers,
                                calls |-> out.calls]
    /\ dataEvents' = dataEvents + 1
    /\ UNCHANGED subscribers
    /\ UNCHANGED <<maskVars, registryVars, migrationVars, planVars>>

TerminalNext == Subscribe \/ Unsubscribe \/ StdinData

TerminalSpec == TerminalInit /\ [][TerminalNext]_vars

-----------------------------------------------------------------------------
(* The caller: the conversation the parts are drawn from *)

\* observation texts: 20,000, 30,000, exactly 50,000 and 50,001 characters, a
\* text of 60,000 characters in two lines, and a tool output of 60,000
\* characters that happens to contain the marker text
Text20k == <<Run("A", 20000)>>
Text30k == <<Run("A", 30000)>>
Text50k == <<Run("B", 50000)>>
TextOver50k == <<Run("A", 50001)>>
Text60k == <<Run("A", 35000), Run("\n", 1), Run("B", 24999)>>
TextQuotingMarker == Lit(MASKED_MARKER) \o <<Run("A", 59980)>>

\* a part that is no tool observation
TextPart == [part |-> [text |-> Str(Lit("keep"))], hasFr |-> FALSE,
             fr |-> <<>>, response |-> Undefined, payload |-> <<>>]

\* a functionResponse part whose response is a mapping
MappingPart(name, payload) ==
    [part |-> <<>>, hasFr |-> TRUE, fr |-> [name |-> Str(Lit(name))],
     response |-> Ref(0), payload |-> payload]

\* a functionResponse part whose response is a bare string
StringPart(name, text) ==
    [part |-> <<>>, hasFr |-> TRUE, fr |-> [name |-> Str(Lit(name))],
     response |-> Str(text), payload |-> <<>>]

\* the parts a turn may hold
PartChoices ==
    {TextPart,
     MappingPart("tool1", [output |-> Str(Text20k)]),
     MappingPart("tool1", [output |-> Str(Text50k)]),
     MappingPart("tool1", [output |-> Str(Text60k),
                           callId |-> Str(Lit("call-1"))]),
     StringPart("tool2", TextOver50k),
     MappingPart("tool2", [output |-> Num(1), result |-> Str(Text60k)]),
     MappingPart("tool2", [output |-> Num(1), result |-> Str(Text30k)]),
     MappingPart("tool2", [error |-> Str(Lit("keep")), stdout |-> Str(<<>>)]),
     MappingPart("tool2", [output |-> Num(1), error |-> Str(Lit("keep"))]),
     MappingPart("tool1", [stdout |-> Str(TextQuotingMarker)]),
     [part |-> [thought |-> Num(1)], hasFr |-> TRUE,
      fr |-> [id |-> Str(Lit("call-1"))],
      response |-> Ref(0),
      payload |-> [content |-> Str(Text30k), exitCode |-> Num(0),
                   callId |-> Num(7)]]}

\* the objects of one part, allocated on the heap
BuildPart(h, choice) ==
    LET payload == NewObject(h, choice.payload)
        response == IF choice.response.t = "object"
                    THEN [heap |-> payload.heap, value |-> Ref(payload.addr)]
                    ELSE [heap |-> h, value |-> choice.response]
        fr == NewObject(response.heap,
                        Spread(choice.fr, "response", response.value))
    IN  IF choice.hasFr
        THEN NewObject(fr.heap,
                       Spread(choice.part, "functionResponse", Ref(fr.addr)))
        ELSE NewObject(h, choice.part)

\* the objects of the parts of one turn: the heap and the parts' addresses
RECURSIVE BuildParts(_, _)
BuildParts(h, choices) ==
    IF choices = <<>> THEN [heap |-> h, addrs |-> <<>>]
    ELSE LET first == BuildPart(h, Head(choices))
             rest == BuildParts(first.heap, Tail(choices))
         IN  [heap |-> rest.heap, addrs |-> <<first.addr>> \o rest.addrs]

\* the number of parts of the first i turns of a history, a turn without parts
\* counting as one
RECURSIVE CountParts(_, _, _)
CountParts(h, hist, i) ==
    IF i < 1 THEN 0
    ELSE LET n == Len(PartsOf(h, ContentAt(h, hist, i)))
         IN  (IF n = 0 THEN 1 ELSE n) + CountParts(h, hist, i - 1)

Init ==
    /\ TerminalAtRest
    /\ heap = <<Array(<<>>)>>
    /\ history = 1
    /\ call = NoCall
    /\ maskRuns = 0
    /\ offloaded = {}
    /\ RegistryAtRest
    /\ MigrationAtRest
    /\ PlanAtRest

\* the caller pushes a turn on its history; a turn of no parts has no parts
\* array
AppendTurn ==
    /\ call.status = "none"
    /\ maskRuns < MaxMaskRuns
    /\ \E k \in 0..MaxTurnParts :
         /\ CountParts(heap, history, Len(heap[history].e))
                + (IF k = 0 THEN 1 ELSE k) <= MaxParts
         /\ \E choices \in [1..k -> PartChoices] :
              LET parts == BuildParts(heap, choices)
                  partsArray == [heap |-> Append(parts.heap, Array(parts.addrs)),
                                 addr |-> Len(parts.heap) + 1]
                  content ==
                      IF k = 0
                      THEN NewObject(heap, [role |-> Str(Lit("user"))])
                      ELSE NewObject(partsArray.heap,
                                     [role |-> Str(Lit("user")),
                                      parts |-> Ref(partsArray.addr)])
              IN  heap' = [content.heap EXCEPT
                              ![history].e = Append(@, content.addr)]
    /\ UNCHANGED <<history, call, maskRuns, offloaded>>
    /\ UNCHANGED <<registryVars, migrationVars, planVars, terminalVars>>

\* the caller invokes mask() on its history; the invocation runs to its end
Mask ==
    /\ call.status = "none"
    /\ maskRuns < MaxMaskRuns
    /\ LET scan == BackwardScan(heap, history)
           n == IF BelowHysteresis(scan.totalPrunableTokens) THEN 0
                ELSE Len(scan.prunableParts)
       IN  \E fault \in Faults(n) \cup ScanFaults(Len(scan.estimated)) :
           \E draws \in Draws(Written(fault, n)) :
             LET out == MaskOutcome(heap, history, fault, draws)
             IN  /\ heap' = out.heap
                 /\ call' = out.call
    /\ UNCHANGED <<history, maskRuns, offloaded>>
    /\ UNCHANGED <<registryVars, migrationVars, planVars, terminalVars>>

\* the caller takes the returned history as its history
UseResult ==
    /\ call.status = "returned"
    /\ history' = call.result.newHistory
    /\ call' = NoCall
    /\ maskRuns' = IF call.passedGate THEN maskRuns + 1 ELSE maskRuns
    /\ offloaded' = offloaded \cup {call.replaced[k] : k \in DOMAIN call.replaced}
    /\ UNCHANGED heap
    /\ UNCHANGED <<registryVars, migrationVars, planVars, terminalVars>>

\* the caller goes on with the history it had (all it can do when mask threw);
\* what the invocation allocated is garbage
KeepHistory ==
    /\ call.status \in {"returned", "threw"}
    /\ call' = NoCall
    /\ heap' = Collect(heap, call.allocated)
    /\ UNCHANGED <<history, maskRuns, offloaded>>
    /\ UNCHANGED <<registryVars, migrationVars, planVars, terminalVars>>

Next == AppendTurn \/ Mask \/ UseResult \/ KeepHistory

Spec == Init /\ [][Next]_vars

-----------------------------------------------------------------------------
(* What the properties speak of: the invocation that has just ended *)

Invoked == call.status # "none"

\* an invocation has just ended whose scan ran to its end, the estimator
\* having answered every call of the scan
Scanned == Invoked /\ call.scan.error = ""
Returned == call.status = "returned"

\* the positions <<turn, part>> of a history
Positions(hist) ==
    UNION {{<<i, j>> : j \in 1..Len(PartsOf(heap, ContentAt(heap, hist, i)))} :
              i \in 1..Len(heap[hist].e)}

PartAt(hist, p) == PartsOf(heap, ContentAt(heap, hist, p[1]))[p[2]]

\* the observation text of a part, empty when it has none
ObservationText(part) ==
    LET c == GetObservationContent(heap, part)
    IN  IF c.t = "string" THEN c.s ELSE <<>>

\* a qualifying part: a tool observation with a text that is not empty and
\* does not carry the masked marker
Qualifies(part) ==
    /\ ObservationText(part) # <<>>
    /\ ~IncludesMarker(ObservationText(part))

Tokens(part) == EstimateTokenCountSync(heap, part)

\* position q is scanned no later than position p
ScannedNoLater(q, p) == q[1] > p[1] \/ (q[1] = p[1] /\ q[2] >= p[2])

RECURSIVE SumTokens(_, _)
SumTokens(hist, S) ==
    IF S = {} THEN 0
    ELSE LET q == CHOOSE x \in S : TRUE
         IN  Tokens(PartAt(hist, q)) + SumTokens(hist, S \ {q})

QualifyingPositions(hist) == {p \in Positions(hist) : Qualifies(PartAt(hist, p))}

\* the tokens of the qualifying parts from the newest down to position p
RunningSum(hist, p) ==
    SumTokens(hist, {q \in QualifyingPositions(hist) : ScannedNoLater(q, p)})

\* the qualifying parts at which the running sum exceeds the protection
\* threshold, and their tokens
BeyondProtection(hist) ==
    {p \in QualifyingPositions(hist) : RunningSum(hist, p) > 50000}

PrunableTotal(hist) == SumTokens(hist, BeyondProtection(hist))

\* the newest qualifying part
IsNewestQualifying(hist, p) ==
    /\ p \in QualifyingPositions(hist)
    /\ \A q \in QualifyingPositions(hist) : ScannedNoLater(p, q)

\* the positions of the records the scan of the invocation collected
ScanPrunable ==
    {<<call.scan.prunableParts[k].contentIndex,
       call.scan.prunableParts[k].partIndex>> :
        k \in DOMAIN call.scan.prunableParts}

\* the files the invocation wrote, in order
Writes == SelectSeq(call.ops, LAMBDA e : e.op = "writeFile")

\* a file was written for the part at position p: files are written for the
\* records in the order of the list
WrittenFor(p) ==
    \E k \in 1..Len(Writes) :
        <<call.scan.prunableParts[k].contentIndex,
          call.scan.prunableParts[k].partIndex>> = p

\* the returned history holds at position p the very part object of the input
SamePart(p) == PartAt(call.result.newHistory, p) = PartAt(call.history, p)

-----------------------------------------------------------------------------
(* C1: scanning from the newest part backwards, a qualifying part is a
   prunable record exactly when the running sum of tokens including it exceeds
   50,000; a qualifying part scanned while the sum is at most 50,000 is
   protected: it is in the returned history as the object it was. *)
C1_ProtectionWindow ==
    Scanned =>
        /\ ScanPrunable = BeyondProtection(call.history)
        /\ Cardinality(ScanPrunable) = Len(call.scan.prunableParts)
        /\ Returned =>
             \A p \in QualifyingPositions(call.history) :
                 RunningSum(call.history, p) <= 50000 => SamePart(p)

\* a part protected at a running sum of exactly 50,000 while an older part is
\* masked
C1_Witness ==
    /\ Returned
    /\ call.passedGate
    /\ Len(Writes) > 0
    /\ \E p \in QualifyingPositions(call.history) :
           RunningSum(call.history, p) = 50000

(* C2 as claimed: the newest qualifying part is never touched: it is in the
   returned history as the object it was and no file is written for it. *)
C2_NewestNeverTouched ==
    Returned =>
        \A p \in Positions(call.history) :
            IsNewestQualifying(call.history, p) => SamePart(p) /\ ~WrittenFor(p)

(* C2 as amended: the newest qualifying part is never touched when it has at
   most 50,000 estimated tokens. *)
C2_NewestWithinThresholdUntouched ==
    Returned =>
        \A p \in Positions(call.history) :
            /\ IsNewestQualifying(call.history, p)
            /\ Tokens(PartAt(call.history, p)) <= 50000
            => SamePart(p) /\ ~WrittenFor(p)

\* masking took place and the newest qualifying part is within the threshold
C2_Witness ==
    /\ Returned
    /\ Len(Writes) > 0
    /\ \E p \in Positions(call.history) :
           /\ IsNewestQualifying(call.history, p)
           /\ Tokens(PartAt(call.history, p)) <= 50000

(* C3: when the prunable total is below 30,000, mask returns the caller's
   history itself with maskedCount 0 and tokensSaved 0, creates no directory,
   writes no file, emits no telemetry event and allocates nothing. *)
C3_BelowHysteresisNoop ==
    Scanned /\ PrunableTotal(call.history) < 30000 =>
        /\ Returned
        /\ call.result = MaskingResult(call.history, 0, 0)
        /\ call.ops = <<>>
        /\ Len(heap) = call.allocated

\* some tokens are prunable, but fewer than 30,000
C3_Witness ==
    /\ Returned
    /\ PrunableTotal(call.history) > 0
    /\ PrunableTotal(call.history) < 30000

(* C4: all or nothing: an invocation that returns either wrote no file and
   returns the caller's history with maskedCount 0, or replaced every prunable
   record, maskedCount being the number of prunable records and the number of
   files written. *)
C4_AllOrNothing ==
    Returned =>
        \/ /\ call.result.maskedCount = 0
           /\ Len(Writes) = 0
           /\ call.result.newHistory = call.history
        \/ /\ call.result.maskedCount = Cardinality(BeyondProtection(call.history))
           /\ call.result.maskedCount = Len(Writes)
           /\ call.result.maskedCount = Len(call.replaced)
           /\ \A p \in BeyondProtection(call.history) : WrittenFor(p) /\ ~SamePart(p)

\* two records were offloaded
C4_Witness == Returned /\ call.result.maskedCount = 2 /\ Len(Writes) = 2

(* C5: a part whose observation text carries the masked marker is never
   recounted, re-offloaded or re-masked: the sums of the scan are those of the
   qualifying parts alone, the part is no prunable record, no file is written
   for it and it is returned as the object it was. *)
C5_MaskedNeverRecounted ==
    Scanned =>
        \A p \in Positions(call.history) :
            IncludesMarker(ObservationText(PartAt(call.history, p))) =>
                /\ p \notin ScanPrunable
                /\ ~WrittenFor(p)
                /\ Returned => SamePart(p)
                /\ call.scan.totalPrunableTokens = PrunableTotal(call.history)
                /\ \/ /\ BeyondProtection(call.history) = {}
                      /\ call.scan.cumulativeToolTokens =
                             SumTokens(call.history,
                                       QualifyingPositions(call.history))
                   \/ \E q \in BeyondProtection(call.history) :
                          /\ \A r \in BeyondProtection(call.history) :
                                 ScannedNoLater(q, r)
                          /\ call.scan.cumulativeToolTokens =
                                 RunningSum(call.history, q)

\* a history with a part carrying the marker is masked
C5_Witness ==
    /\ Returned
    /\ Len(Writes) > 0
    /\ \E p \in Positions(call.history) :
           IncludesMarker(ObservationText(PartAt(call.history, p)))

(* C6 as claimed: a part that an earlier invocation put in the place of a
   prunable record (counted in its maskedCount) is skipped by every later
   invocation: neither protected nor prunable, and no file is written for it
   again. *)
C6_OffloadedPartsSkipped ==
    Invoked =>
        \A p \in Positions(call.history) :
            PartAt(call.history, p) \in offloaded =>
                /\ SkippedByScan(heap, PartAt(call.history, p))
                /\ p \notin ScanPrunable
                /\ ~WrittenFor(p)

(* C7: mask never mutates the caller's history in place: whether it returns or
   throws, every object that existed before the invocation (the caller's array
   of turns, every turn, part and payload) has the contents it had, and the
   caller still holds the same array. *)
C7_CallerHistoryNotMutated ==
    [][call.status = "none" /\ call'.status # "none" =>
          /\ history' = history
          /\ Len(heap') >= Len(heap)
          /\ \A a \in 1..Len(heap) : heap'[a] = heap[a]]_vars

\* an invocation threw after it had replaced a part in its copy
C7_Witness == call.status = "threw" /\ Len(call.replaced) > 0

(* C8: when mkdir or a writeFile fails, mask throws and returns no result:
   nothing is done after the failing operation (no later record is written, no
   telemetry event is emitted), and the caller's history is the unmasked one. *)
C8_StorageFailureAborts ==
    Invoked =>
        \A m \in DOMAIN call.ops :
            call.ops[m].op \in {"mkdir failed", "writeFile failed"} =>
                /\ call.status = "threw"
                /\ call.result = MaskingResult(0, 0, 0)
                /\ m = Len(call.ops)
                /\ Len(Writes) = IF m = 1 THEN 0 ELSE m - 2
                /\ Len(Writes) < Len(call.scan.prunableParts)
                /\ history = call.history
                /\ \A p \in Positions(history) :
                       /\ PartAt(history, p) <= call.allocated
                       /\ \A k \in DOMAIN call.replaced :
                              PartAt(history, p) # call.replaced[k]

\* the write of the second record failed after the first was written
C8_Witness ==
    /\ call.status = "threw"
    /\ Len(Writes) = 1
    /\ call.ops[Len(call.ops)].op = "writeFile failed"

(* C9 as claimed: when the telemetry logger fails, mask still returns the
   result it computed and no error reaches the caller. *)
C9_TelemetryFailureSwallowed ==
    Invoked =>
        \A m \in DOMAIN call.ops :
            call.ops[m].op = "telemetry failed" =>
                /\ Returned
                /\ call.result.maskedCount = Len(call.scan.prunableParts)

\* the fields of an object other than one key
Others(fields, key) == [x \in (DOMAIN fields) \ {key} |-> fields[x]]

(* C10 as claimed: for a prunable record whose payload is a mapping, the key
   that receives the snippet is the key the observation text was read from, and
   every other key of the payload and every field outside the payload keeps its
   value; a payload that is a bare string is replaced by the snippet. *)
C10_SnippetReplacesContentKey ==
    Returned =>
        \A k \in DOMAIN call.replaced :
            LET item == call.scan.prunableParts[k]
                old == PartAt(call.history, <<item.contentIndex, item.partIndex>>)
                new == call.replaced[k]
                oldFr == Get(heap, old, "functionResponse").a
                newFr == Get(heap, new, "functionResponse").a
                oldResponse == ResponseOf(heap, old)
                newResponse == ResponseOf(heap, new)
                key == ContentKey(heap, oldResponse.a)
            IN  /\ Others(heap[new].f, "functionResponse")
                       = Others(heap[old].f, "functionResponse")
                /\ Others(heap[newFr].f, "response")
                       = Others(heap[oldFr].f, "response")
                /\ oldResponse.t = "string" =>
                       /\ newResponse.t = "string"
                       /\ newResponse.s \in {item.content}
                              \cup {t \in {newResponse.s} : IncludesMarker(t)}
                /\ oldResponse.t = "object" =>
                       /\ newResponse.t = "object"
                       /\ DOMAIN heap[newResponse.a].f
                              = DOMAIN heap[oldResponse.a].f
                       /\ Others(heap[newResponse.a].f, key)
                              = Others(heap[oldResponse.a].f, key)
                       /\ heap[newResponse.a].f[key].t = "string"

\* the k-th prunable record of the invocation: its position, the part it was
\* and the part put in its place
RecordPosition(k) ==
    <<call.scan.prunableParts[k].contentIndex,
      call.scan.prunableParts[k].partIndex>>

OriginalText(k) == ObservationText(PartAt(call.history, RecordPosition(k)))

\* what the file at a path holds after the invocation: the data of the last
\* write to it
FileHolds(path, text) ==
    \E m \in 1..Len(Writes) :
        /\ Writes[m].path = path
        /\ Writes[m].data = text
        /\ \A l \in (m + 1)..Len(Writes) : Writes[l].path # path

(* C11 as claimed: when the prunable total is at least 30,000, an invocation
   that returns has written the full text of every prunable record to a file of
   its own and counts every record in maskedCount, whatever the length of the
   text. *)
C11_EveryRecordOffloaded ==
    Returned /\ PrunableTotal(call.history) >= 30000 =>
        /\ call.result.maskedCount = Len(call.scan.prunableParts)
        /\ Len(Writes) = Len(call.scan.prunableParts)
        /\ \A k \in 1..Len(Writes) :
               /\ Writes[k].data = OriginalText(k)
               /\ FileHolds(Writes[k].path, OriginalText(k))
               /\ \A l \in 1..Len(Writes) :
                      l # k => Writes[l].path # Writes[k].path

\* the strings a payload holds: the payload itself when it is a bare string,
\* else the values of its keys that are strings
PayloadStrings(part) ==
    LET response == ResponseOf(heap, part)
    IN  IF response.t = "string" THEN {response.s}
        ELSE IF response.t = "object"
        THEN {heap[response.a].f[key].s :
                 key \in {x \in DOMAIN heap[response.a].f :
                              heap[response.a].f[x].t = "string"}}
        ELSE {}

\* text t occurs in string s from run i on
OccursAt(s, i, t) ==
    /\ i >= 1
    /\ i + Len(t) - 1 <= Len(s)
    /\ SubSeq(s, i, i + Len(t) - 1) = t

\* s is a masked snippet of the text: the marker, the first and the last
\* 20,000 characters with a truncation banner between them, and a guidance
\* block that names the path
IsMaskedSnippet(s, text, path) ==
    LET head == Take(text, 20000)
        tail == Drop(text, TextLen(text) - 20000)
        banner == 3 + Len(head)
    IN  /\ OccursAt(s, 1, Lit(MASKED_MARKER) \o <<Run("\n", 1)>>)
        /\ TextLen(head) = 20000
        /\ TextLen(tail) = 20000
        /\ OccursAt(s, 3, head)
        /\ banner <= Len(s)
        /\ s[banner].c = "\n... [TRUNCATED "
        /\ \E i \in (banner + 1)..Len(s) :
               /\ s[i - 1].c = " TOKENS] ...\n"
               /\ OccursAt(s, i, tail)
               /\ \E j \in (i + Len(tail))..Len(s) :
                      /\ s[i + Len(tail)].c
                             = "\n\n<observation_masked_guidance tool_name="
                      /\ OccursAt(s, j, path)

(* C12 as claimed: the snippet put in the place of a prunable record is the
   original text when that has at most 50,000 characters; when it has more, the
   snippet starts with the marker, holds the first and the last 20,000
   characters of the original, a truncation banner between them and a guidance
   block with the path of the offload file, and that file holds the full
   original text. *)
C12_SnippetShape ==
    Returned =>
        \A k \in DOMAIN call.replaced :
            LET text == OriginalText(k)
            IN  /\ TextLen(text) <= 50000 =>
                       ObservationText(call.replaced[k]) = text
                /\ TextLen(text) > 50000 =>
                       /\ \E s \in PayloadStrings(call.replaced[k]) :
                              IsMaskedSnippet(s, text, Writes[k].path)
                       /\ FileHolds(Writes[k].path, text)

(* C13: when the qualifying observations of the history total at most 50,000
   tokens, the scan yields no prunable record, mask returns maskedCount 0 and
   tokensSaved 0, every turn of the returned history is the caller's own turn
   object, and nothing is written. *)
C13_WithinProtectionNeverMasks ==
    /\ Scanned
    /\ SumTokens(call.history, QualifyingPositions(call.history)) <= 50000
    => /\ Returned
       /\ call.scan.prunableParts = <<>>
       /\ call.scan.totalPrunableTokens = 0
       /\ call.result.maskedCount = 0
       /\ call.result.tokensSaved = 0
       /\ Len(heap[call.result.newHistory].e) = Len(heap[call.history].e)
       /\ \A i \in 1..Len(heap[call.history].e) :
              ContentAt(heap, call.result.newHistory, i)
                  = ContentAt(heap, call.history, i)
       /\ call.ops = <<>>

\* two observations that total exactly 50,000 tokens
C13_Witness ==
    /\ Returned
    /\ Cardinality(QualifyingPositions(call.history)) = 2
    /\ SumTokens(call.history, QualifyingPositions(call.history)) = 50000

(* C14: when the newest qualifying observation alone has more than 50,000
   tokens, it is a prunable record itself and so is every older qualifying
   observation: the prunable total is the total of all of them, masking
   triggers and every one is processed. With a newest part of 60,000 and an
   older part of 20,000 tokens the total is 80,000, maskedCount is 2 and two
   files are written. *)
C14_NewestAloneCrosses ==
    /\ Scanned
    /\ \E p \in Positions(call.history) :
           /\ IsNewestQualifying(call.history, p)
           /\ Tokens(PartAt(call.history, p)) > 50000
    => /\ ScanPrunable = QualifyingPositions(call.history)
       /\ call.scan.totalPrunableTokens
              = SumTokens(call.history, QualifyingPositions(call.history))
       /\ call.passedGate
       /\ Returned =>
              /\ call.result.maskedCount
                     = Cardinality(QualifyingPositions(call.history))
              /\ Len(Writes) = call.result.maskedCount
              /\ \A p \in QualifyingPositions(call.history) : ~SamePart(p)

\* the scenario of the claim: a newest observation of 60,000 tokens and an
\* older one of 20,000
C14_Witness ==
    /\ Returned
    /\ \E p, q \in Positions(call.history) :
           /\ QualifyingPositions(call.history) = {p, q}
           /\ p # q
           /\ IsNewestQualifying(call.history, p)
           /\ Tokens(PartAt(call.history, p)) = 60000
           /\ Tokens(PartAt(call.history, q)) = 20000
    /\ call.scan.totalPrunableTokens = 80000
    /\ call.result.maskedCount = 2
    /\ Len(Writes) = 2

(* C15 as claimed: masking takes place (a file is written, or maskedCount is
   above 0) only in invocations whose prunable total is strictly greater than
   30,000. *)
C15_MasksOnlyAboveHysteresis ==
    /\ Invoked
    /\ \/ Len(Writes) > 0
       \/ Returned /\ call.result.maskedCount > 0
    => call.scan.totalPrunableTokens > 30000

\* the contents of an object with the objects it refers to in place of their
\* addresses
RECURSIVE DeepValue(_, _)
DeepValue(h, a) ==
    IF h[a].k = "array"
    THEN [i \in DOMAIN h[a].e |-> DeepValue(h, h[a].e[i])]
    ELSE [key \in DOMAIN h[a].f |->
             IF h[a].f[key].t = "object"
             THEN [t |-> "object", v |-> DeepValue(h, h[a].f[key].a)]
             ELSE [t |-> h[a].f[key].t, v |-> h[a].f[key]]]

(* C16 as claimed: mask is a reproducible function of the history: any other
   invocation on the same history, with the same estimator and from the same
   storage state, returns the same maskedCount, the same tokensSaved and a new
   history with equal content in every part. *)
C16_Reproducible ==
    Returned =>
        \A draws \in Draws(Len(Writes)) :
            LET again == MaskOutcome(Collect(heap, call.allocated),
                                     call.history, NoFault, draws)
            IN  /\ again.call.status = "returned"
                /\ again.call.result.maskedCount = call.result.maskedCount
                /\ again.call.result.tokensSaved = call.result.tokensSaved
                /\ DeepValue(again.heap, again.call.result.newHistory)
                       = DeepValue(heap, call.result.newHistory)

\* turn i of the history holds a prunable record of the invocation
HoldsPrunable(i) == \E p \in ScanPrunable : p[1] = i

(* C17: the returned history has the turns of the input, as many and in the
   same order, each with as many parts; a turn that holds no prunable record
   is the object it was, and in a turn that holds one every part that is no
   prunable record is the object it was. *)
C17_UntouchedKeepIdentity ==
    Returned =>
        /\ Len(heap[call.result.newHistory].e) = Len(heap[call.history].e)
        /\ \A i \in 1..Len(heap[call.history].e) :
               /\ Len(PartsOf(heap, ContentAt(heap, call.result.newHistory, i)))
                      = Len(PartsOf(heap, ContentAt(heap, call.history, i)))
               /\ ~HoldsPrunable(i) =>
                      ContentAt(heap, call.result.newHistory, i)
                          = ContentAt(heap, call.history, i)
        /\ \A p \in Positions(call.history) :
               p \notin ScanPrunable => SamePart(p)

\* a record was masked in a turn whose first part is no tool observation
C17_Witness ==
    /\ Returned
    /\ Len(Writes) > 0
    /\ \E p \in ScanPrunable :
           /\ p[2] = 2
           /\ ~Truthy(Get(heap, PartAt(call.history, <<p[1], 1>>),
                          "functionResponse"))

-----------------------------------------------------------------------------
(* ProjectRegistry: properties *)

NotInitializedError == "ProjectRegistry must be initialized before use"

\* C18: getShortId on an instance that is not initialized throws
\* 'ProjectRegistry must be initialized before use', whatever the path; it
\* leaves the instance without data and the registry file as it was, and a
\* call that threw this error has changed no instance and not the file.
C18_UninitializedThrows ==
    [][/\ \A r \in Registries : \A projectPath \in ProjectPaths :
          \A fault \in SaveFaults :
            ~registries[r].initialized =>
                LET out == GetShortIdOutcome(platform, registries[r],
                                             registryFile, projectPath, fault)
                IN  /\ out.call.error = NotInitializedError
                    /\ out.call.id = <<>>
                    /\ out.data = NoData
                    /\ out.file = registryFile
       /\ (shortIdCalls' # shortIdCalls
              /\ lastShortId'.error = NotInitializedError) =>
            /\ registries' = registries
            /\ registryFile' = registryFile
            /\ firstShortIds' = firstShortIds
            /\ lastShortId'.id = <<>>]_vars

\* getShortId has thrown on an instance that is not initialized, while the
\* other instance holds an identifier and the file exists
C18_Witness ==
    /\ lastShortId.error = NotInitializedError
    /\ \E r \in Registries : ~registries[r].initialized
    /\ registryFile.kind = "file"

\* no two paths of the projects of an instance have one identifier
UniqueShortIds(projects) ==
    \A p \in DOMAIN projects : \A q \in DOMAIN projects :
        projects[p] = projects[q] => p = q

\* the slug generateUniqueShortId starts from
SlugOf(normalizedPath) ==
    Slugify(IF Basename(normalizedPath) = <<>> THEN <<"project">>
            ELSE Basename(normalizedPath))

\* C19: in every instance no two distinct normalized paths have the same
\* short identifier, and a path an initialized instance newly assigns gets
\* its slug when no path holds it, otherwise the slug followed by '-' and the
\* least number from 1 on that gives an identifier no path holds.
C19_UniqueWithinRegistry ==
    [][\A r \in Registries :
         /\ UniqueShortIds(registries'[r].projects)
         /\ registries[r].initialized =>
              \A p \in DOMAIN registries'[r].projects
                          \ DOMAIN registries[r].projects :
                LET ids == ObjectValues(registries[r].projects)
                    id == registries'[r].projects[p]
                    slug == SlugOf(p)
                IN  IF slug \notin ids THEN id = slug
                    ELSE \E n \in 1..(Cardinality(ids) + 1) :
                           /\ id = slug \o <<"-">> \o Decimal(n)
                           /\ id \notin ids
                           /\ \A m \in 1..(n - 1) :
                                  slug \o <<"-">> \o Decimal(m) \in ids]_vars

\* one instance holds three paths of slug g or g-1 under g, g-1 and g-2
C19_Witness ==
    \E r \in Registries :
        /\ registries[r].initialized
        /\ {<<"g">>, <<"g", "-", "1">>, <<"g", "-", "2">>}
              \subseteq ObjectValues(registries[r].projects)

\* C20: every getShortId call that returns gives the identifier the first
\* call for the same normalized path returned.
C20_StableShortId ==
    (shortIdCalls > 0 /\ lastShortId.error = "") =>
        /\ lastShortId.path \in DOMAIN firstShortIds
        /\ lastShortId.id = firstShortIds[lastShortId.path]

-----------------------------------------------------------------------------
(* StorageMigration: properties *)

\* a migrateDirectory call has just ended
Migrated == migration.version # "none"

\* before the call oldPath existed and newPath did not
OldOnly ==
    /\ ExistsSync(migration.before, migration.oldPath)
    /\ ~ExistsSync(migration.before, migration.newPath)

\* the directory has moved: newPath holds what oldPath held, oldPath is gone,
\* the parent of newPath exists and no other directory has changed
Moved ==
    /\ ExistsSync(disk, migration.newPath)
    /\ disk[migration.newPath] = migration.before[migration.oldPath]
    /\ ~ExistsSync(disk, migration.oldPath)
    /\ ExistsSync(disk, Dirname(migration.newPath))
    /\ \A d \in Directories \ {migration.oldPath, migration.newPath,
                                 Dirname(migration.newPath)} :
           disk[d] = migration.before[d]

\* neither path has been created, removed or changed
BothPathsAsBefore ==
    /\ disk[migration.oldPath] = migration.before[migration.oldPath]
    /\ disk[migration.newPath] = migration.before[migration.newPath]

\* the existence checks of the call answered what the directories were
ChecksAnswered ==
    migration.fault \notin {"access old", "access new", "access new, rename"}

(* C21 as claimed: migrateDirectory moves the directory if and only if before
   the call oldPath exists and newPath does not; in every other case neither
   path is created, removed or changed. *)
C21_MovesIffOldOnly ==
    Migrated =>
        IF OldOnly THEN Moved
        ELSE BothPathsAsBefore /\ ~Moved

(* C21 as amended: when its existence checks do not fail, migrateDirectory
   moves the directory if and only if before the call oldPath exists, newPath
   does not, and neither the creation of the parent directory nor the rename
   fails; in every other case neither path is
   created, removed or changed, and when oldPath is missing or newPath exists
   no directory at all is. *)
C21_MovesIffOldOnlyAndNoFailure ==
    Migrated /\ ChecksAnswered =>
        /\ IF OldOnly /\ ~migration.logged THEN Moved
           ELSE BothPathsAsBefore /\ ~Moved
        /\ ~OldOnly => disk = migration.before /\ ~migration.logged

\* a directory with a file has moved to sub/new-slug, sub having been missing
C21_Witness ==
    /\ Migrated
    /\ migration.newPath = "sub/new-slug"
    /\ ~ExistsSync(migration.before, "sub")
    /\ disk["sub/new-slug"] = Directory({"test.txt"})
    /\ ~ExistsSync(disk, "old-hash")

-----------------------------------------------------------------------------
(* The /plan command: properties *)

\* a /plan invocation has just ended, with a configuration in which plan mode
\* was enabled or was not
PlanDisabledCall ==
    /\ planCall.status = "returned"
    /\ planCall.before.present
    /\ ~planCall.before.planEnabled

PlanEnabledCall ==
    /\ planCall.status = "returned"
    /\ planCall.before.present
    /\ planCall.before.planEnabled

\* the feedback of the invocation holds the message
Emitted(severity, text, arg) ==
    \E k \in DOMAIN planCall.feedback :
        planCall.feedback[k] =
            [severity |-> severity, text |-> text, arg |-> arg]

\* the entries of the plans directory whose name ends in '.md'
MdEntries ==
    {plansDir.entries[k] : k \in {i \in DOMAIN plansDir.entries :
        plansDir.entries[i].file[Len(plansDir.entries[i].file)] = ".md"}}

\* the files the invocation read with readFile, in order
FilesRead ==
    SelectSeq(planCall.reads, LAMBDA r : r[1] = "readFile")

(* C22: when plan mode is not enabled in the configuration, /plan emits one
   error feedback and nothing else: the approval mode is what it was, no read
   of the plans directory is made and no item is added to the UI. *)
C22_DisabledOnlyError ==
    PlanDisabledCall =>
        /\ Len(planCall.feedback) = 1
        /\ planCall.feedback[1].severity = "error"
        /\ planConfig = planCall.before
        /\ planCall.reads = <<>>
        /\ planCall.items = <<>>

\* /plan was entered with plan mode disabled, the approval mode being
\* default and the plans directory holding a plan
C22_Witness ==
    /\ PlanDisabledCall
    /\ planCall.before.approvalMode = "default"
    /\ MdEntries # {}

\* the invocation displayed the latest plan: it read exactly one file, an
\* '.md' entry that no '.md' entry is newer than, announced it and added its
\* content to the UI
DisplayedLatest ==
    \E e \in MdEntries :
        /\ \A other \in MdEntries : other.mtime <= e.mtime
        /\ FilesRead = <<<<"readFile", e.file>>>>
        /\ Emitted("info", "Latest Plan: ", e.file)
        /\ planCall.items = <<<<"content of">> \o e.file>>

\* 'No plans found.' was emitted and no item was added
NothingFound ==
    /\ Emitted("info", "No plans found.", <<>>)
    /\ planCall.items = <<>>

(* C23 as claimed: when plan mode is enabled, /plan reads and adds to the UI
   exactly the '.md' file of the plans directory with the greatest
   modification time, announced by 'Latest Plan: <file>'; it emits 'No plans
   found.' and adds no item if and only if the directory does not exist or
   holds no '.md' file. *)
C23_DisplaysLatestPlan ==
    PlanEnabledCall =>
        /\ NothingFound <=> (~plansDir.exists \/ MdEntries = {})
        /\ (plansDir.exists /\ MdEntries # {}) => DisplayedLatest

(* C23 as amended: the same, for an invocation in which no read of the plans
   directory, of a modification time or of the plan fails (no error feedback
   is emitted). *)
C23_DisplaysLatestPlanUnlessReadFails ==
    (PlanEnabledCall
       /\ \A k \in DOMAIN planCall.feedback :
              planCall.feedback[k].severity # "error") =>
        /\ NothingFound <=> (~plansDir.exists \/ MdEntries = {})
        /\ (plansDir.exists /\ MdEntries # {}) => DisplayedLatest

\* readdir listed the older plan first and the newer plan was displayed
C23_Witness ==
    /\ PlanEnabledCall
    /\ plansDir.exists
    /\ Len(plansDir.entries) = 2
    /\ plansDir.entries[1] = [file |-> <<"old-plan", ".md">>, mtime |-> 1000]
    /\ plansDir.entries[2] = [file |-> <<"new-plan", ".md">>, mtime |-> 2000]
    /\ planCall.items = <<<<"content of", "new-plan", ".md">>>>

-----------------------------------------------------------------------------
(* Observation masking: telemetry, order, estimator *)

\* the estimator answered every call of the invocation
EstimatorAnswered == call.error # "estimate"

\* the invocation passed the gate and its offload loop ran to its end: the
\* directory was made and a file written for every record
OffloadCompleted ==
    /\ Invoked
    /\ EstimatorAnswered
    /\ call.passedGate
    /\ \A m \in DOMAIN call.ops :
           call.ops[m].op \notin {"mkdir failed", "writeFile failed"}

\* the positions in the effects of the invocation at which the telemetry
\* logger was called
LoggerCalls ==
    {m \in DOMAIN call.ops : call.ops[m].op \in {"telemetry", "telemetry failed"}}

(* C24: an invocation that passes the gate and completes its offload writes
   calls the telemetry logger exactly once, after the last file write, with
   tokens_before = total_prunable_tokens = the prunable total of the scan,
   masked_count = the returned maskedCount and tokens_after = tokens_before
   minus the returned tokensSaved; an invocation that does not pass the gate
   never calls it. *)
C24_TelemetryOnceAfterWrites ==
    Invoked /\ EstimatorAnswered =>
        /\ ~call.passedGate => LoggerCalls = {}
        /\ ~OffloadCompleted => LoggerCalls = {}
        /\ OffloadCompleted =>
              /\ LoggerCalls = {Len(call.ops)}
              /\ Len(Writes) = Len(call.scan.prunableParts)
              /\ LET event == call.ops[Len(call.ops)].event
                 IN  /\ event[1] = PrunableTotal(call.history)
                     /\ event[4] = event[1]
                     /\ event[3] = Len(call.scan.prunableParts)
                     /\ Returned =>
                           /\ event[3] = call.result.maskedCount
                           /\ event[2] = event[1] - call.result.tokensSaved

\* an invocation wrote two files, saved tokens and then emitted its event
C24_Witness ==
    /\ Returned
    /\ Len(Writes) = 2
    /\ call.result.tokensSaved > 0
    /\ call.ops[Len(call.ops)].op = "telemetry"

\* the k-th position of S in the order of the scan, from the newest part
\* backwards
KthScanned(S, k) ==
    CHOOSE p \in S : Cardinality({q \in S : ScannedNoLater(q, p)}) = k

(* C25: an invocation that passes the gate makes the directory first, before
   any file is written, and then writes the files one after the other in the
   order in which the scan collected the records: the boundary-crossing part
   first, then the older ones, by descending turn and descending part index;
   the k-th file holds the text of the k-th record and the k-th replacement
   is made before the next file is written. *)
C25_MkdirThenWritesInScanOrder ==
    Scanned =>
        /\ ~call.passedGate => call.ops = <<>>
        /\ call.passedGate =>
              /\ call.ops[1].op \in {"mkdir", "mkdir failed"}
              /\ \A m \in 2..Len(call.ops) :
                     /\ call.ops[m].op \notin {"mkdir", "mkdir failed"}
                     /\ m <= Len(Writes) + 1 <=> call.ops[m].op = "writeFile"
              /\ Len(Writes) <= Cardinality(BeyondProtection(call.history))
              /\ Len(call.replaced) = Len(Writes)
              /\ \A k \in 1..Len(Writes) :
                     LET p == KthScanned(BeyondProtection(call.history), k)
                     IN  /\ Writes[k].data =
                               ObservationText(PartAt(call.history, p))
                         /\ <<call.scan.prunableParts[k].contentIndex,
                              call.scan.prunableParts[k].partIndex>> = p

\* two files were written, the text of the newer record first, and the two
\* texts differ
C25_Witness ==
    /\ Scanned
    /\ Len(Writes) = 2
    /\ Writes[1].data # Writes[2].data
    /\ call.ops[1].op = "mkdir"

\* every record the scan of the invocation collected has a text of at most
\* 50,000 characters
AllRecordsSmall ==
    \A p \in BeyondProtection(call.history) :
        TextLen(ObservationText(PartAt(call.history, p))) <= 50000

(* C26 as claimed: an invocation that passes the gate and whose prunable
   records all have at most 50,000 characters returns tokensSaved 0 and a
   history textually identical to the input in every part and every payload
   key, while maskedCount is the number of prunable records and one file was
   written for each of them. *)
C26_SmallRecordsLeaveHistoryIdentical ==
    Returned /\ call.passedGate /\ AllRecordsSmall =>
        /\ call.result.tokensSaved = 0
        /\ DeepValue(heap, call.result.newHistory)
               = DeepValue(heap, call.history)
        /\ call.result.maskedCount
               = Cardinality(BeyondProtection(call.history))
        /\ Len(Writes) = Cardinality(BeyondProtection(call.history))

\* the four keys of a payload that may hold its text
TextKeys == {"output", "result", "stdout", "content"}

\* the part is a tool observation
IsObservation(part) == Truthy(Get(heap, part, "functionResponse"))

\* the payload of a tool observation
PayloadOf(part) ==
    Get(heap, Get(heap, part, "functionResponse").a, "response")

\* the payload holds a string under one of the four keys
HoldsTextUnderKey(part) ==
    /\ PayloadOf(part).t = "object"
    /\ \E key \in TextKeys : Get(heap, PayloadOf(part).a, key).t = "string"

\* the text extracted from the part is the empty string
ExtractedTextEmpty(part) == GetObservationContent(heap, part) = Str(<<>>)

\* the part at position p of the input was skipped by the invocation: the
\* estimator was not called for it, it is no prunable record and, when the
\* invocation returns, the returned history holds the very part
SkippedByInvocation(p) ==
    /\ \A k \in DOMAIN call.estimated :
           call.estimated[k] # PartAt(call.history, p)
    /\ p \notin ScanPrunable
    /\ Returned => SamePart(p)

RECURSIVE SumEstimates(_)
SumEstimates(parts) ==
    IF parts = <<>> THEN 0
    ELSE Tokens(Head(parts)) + SumEstimates(Tail(parts))

\* the two sums of the scan hold the estimates of the parts the estimator
\* was called for and nothing else, the boundary-crossing part being counted
\* in both
SumsHoldEstimatesOnly ==
    Scanned =>
        call.scan.cumulativeToolTokens + call.scan.totalPrunableTokens
            = SumEstimates(call.scan.estimated)
                + IF call.scan.prunableParts = <<>> THEN 0
                  ELSE call.scan.prunableParts[1].tokens

(* C27 as claimed: a tool-observation part whose payload holds no string
   under any of output, result, stdout, content, or whose extracted text is
   empty, is skipped: the estimator is not called for it, it adds nothing to
   the running sum, it is never a prunable record and it is returned
   unchanged. *)
C27_NoTextUnderKeysSkipped ==
    Invoked =>
        /\ SumsHoldEstimatesOnly
        /\ \A p \in Positions(call.history) :
               LET part == PartAt(call.history, p)
               IN  /\ IsObservation(part)
                   /\ ~HoldsTextUnderKey(part) \/ ExtractedTextEmpty(part)
                   => SkippedByInvocation(p)

(* C27 as amended: a tool-observation part whose payload is not itself a
   plain string and holds no string under any of output, result, stdout,
   content, or whose extracted text is empty, is skipped: the estimator is
   not called for it, it adds nothing to the running sum, it is never a
   prunable record and it is returned unchanged. *)
C27_TextlessSkipped ==
    Invoked =>
        /\ SumsHoldEstimatesOnly
        /\ \A p \in Positions(call.history) :
               LET part == PartAt(call.history, p)
               IN  /\ IsObservation(part)
                   /\ \/ /\ PayloadOf(part).t # "string"
                         /\ ~HoldsTextUnderKey(part)
                      \/ ExtractedTextEmpty(part)
                   => SkippedByInvocation(p)

\* an invocation that masked a record returned a history that holds, older
\* than the record, a part with no string under the four keys or with an
\* empty text
C27_Witness ==
    /\ Returned
    /\ call.result.maskedCount > 0
    /\ \E p \in Positions(call.history) :
           LET part == PartAt(call.history, p)
           IN  /\ IsObservation(part)
               /\ PayloadOf(part).t = "object"
               /\ ~HoldsTextUnderKey(part)
               /\ \E q \in ScanPrunable : ScannedNoLater(q, p)

\* the estimator threw at one of its calls of the backward scan
EstimatorFailedInScan == Invoked /\ call.scan.failAt > 0

\* the estimator threw at the estimate of a part put in the place of a record
EstimatorFailedInLoop ==
    Invoked /\ call.scan.failAt = 0 /\ call.error = "estimate"

\* the caller holds the history it passed, and no part of it is an object the
\* invocation allocated or put in the place of a record
CallerHistoryUntouched ==
    /\ history = call.history
    /\ \A p \in Positions(history) :
           /\ PartAt(history, p) <= call.allocated
           /\ \A k \in DOMAIN call.replaced :
                  PartAt(history, p) # call.replaced[k]

(* C28: when the token estimator fails, during the backward scan or during
   the re-estimation of a replaced part, mask throws and the invocation stops
   there: a failure in the scan leaves no effect at all (no directory, no
   file), a failure in the loop leaves the files written so far and nothing
   after the part whose estimate failed; no result and no telemetry event is
   produced, and the caller's history is not mutated. *)
C28_EstimatorFailurePropagates ==
    /\ EstimatorFailedInScan =>
          /\ call.status = "threw"
          /\ call.error = "estimate"
          /\ call.result = MaskingResult(0, 0, 0)
          /\ call.ops = <<>>
          /\ call.replaced = <<>>
          /\ Len(call.estimated) = call.scan.failAt
          /\ CallerHistoryUntouched
    /\ EstimatorFailedInLoop =>
          /\ call.status = "threw"
          /\ call.result = MaskingResult(0, 0, 0)
          /\ LoggerCalls = {}
          /\ call.ops[Len(call.ops)].op = "writeFile"
          /\ Len(Writes) = Len(call.replaced)
          /\ Len(call.ops) = Len(Writes) + 1
          /\ call.estimated[Len(call.estimated)]
                 = call.replaced[Len(call.replaced)]
          /\ CallerHistoryUntouched

\* the estimator failed in the scan of a history that another estimator
\* would have had masked
C28_WitnessInScan ==
    /\ EstimatorFailedInScan
    /\ call.status = "threw"
    /\ PrunableTotal(call.history) >= 30000

\* the estimator failed at the first replaced part of two records
C28_WitnessInLoop ==
    /\ EstimatorFailedInLoop
    /\ Len(call.replaced) = 1
    /\ Len(call.scan.prunableParts) = 2

\* the part of the input that the k-th replacement of the invocation stands for
OriginalOf(k) ==
    PartAt(call.history, <<call.scan.prunableParts[k].contentIndex,
                           call.scan.prunableParts[k].partIndex>>)

\* the text of the k-th record is longer than 50,000 characters: its snippet
\* is the truncated one
Truncated(k) == TextLen(ObservationText(OriginalOf(k))) > 50000

(* C29: with an estimator of one token per character of the observation text
   and offload paths shorter than 1,000 characters, mask never returns a
   negative tokensSaved, returns a positive one when at least one prunable
   record is truncated, and no replaced part of the returned history is
   estimated larger than the part it stands for. *)
C29_TokensSavedNotNegative ==
    Returned /\ (\A k \in DOMAIN Writes : TextLen(Writes[k].path) < 1000) =>
        /\ call.result.tokensSaved >= 0
        /\ (\E k \in DOMAIN call.replaced : Truncated(k)) =>
               call.result.tokensSaved > 0
        /\ \A k \in DOMAIN call.replaced :
               /\ Tokens(call.replaced[k]) <= Tokens(OriginalOf(k))
               /\ Truncated(k) =>
                      Tokens(call.replaced[k]) < Tokens(OriginalOf(k))

\* an invocation returned after it had truncated a record of 50,001
\* characters, the shortest that is truncated
C29_Witness ==
    /\ Returned
    /\ \E k \in DOMAIN call.replaced :
           /\ TextLen(ObservationText(OriginalOf(k))) = 50001
           /\ Tokens(call.replaced[k]) > 40000
    /\ call.result.tokensSaved > 0

(* C30: records do not interfere with one another: when a turn holds two or
   more prunable records, the turn of the returned history holds the
   replacement made for every one of them, each at the index of its record,
   and every other part of the turn is the part of the input. *)
C30_ReplacementsKeptInSharedTurn ==
    Returned =>
        /\ \A p \in Positions(call.history) :
               p \notin ScanPrunable => SamePart(p)
        /\ \A k \in DOMAIN call.replaced :
               /\ PartAt(call.result.newHistory, RecordPosition(k))
                      = call.replaced[k]
               /\ call.replaced[k] > call.allocated
               /\ \A m \in DOMAIN call.replaced :
                      m # k => call.replaced[m] # call.replaced[k]

\* one turn held two prunable records, and the returned turn holds both
\* replacements
C30_Witness ==
    /\ Returned
    /\ Len(call.replaced) = 2
    /\ RecordPosition(1)[1] = RecordPosition(2)[1]
    /\ PartAt(call.result.newHistory, RecordPosition(1)) = call.replaced[1]
    /\ PartAt(call.result.newHistory, RecordPosition(2)) = call.replaced[2]

-----------------------------------------------------------------------------
(* Observation masking across invocations *)

\* the invocation replaced at least one record and the text of every record
\* it replaced was longer than 50,000 characters
MaskedOnlyLongRecords ==
    /\ Returned
    /\ call.result.maskedCount > 0
    /\ \A k \in DOMAIN call.scan.prunableParts : Truncated(k)

(* C31: masking does not thrash: when mask returned maskedCount > 0 and every
   prunable record was longer than 50,000 characters, mask applied to the
   returned history, no turn added, returns that history with maskedCount 0
   and tokensSaved 0, writes no file and emits no telemetry event. *)
C31_NoThrashing ==
    MaskedOnlyLongRecords =>
        \A draws \in Draws(Len(BackwardScan(heap, call.result.newHistory)
                                    .prunableParts)) :
            LET again == MaskOutcome(heap, call.result.newHistory, NoFault,
                                     draws)
            IN  /\ again.call.status = "returned"
                /\ ~again.call.passedGate
                /\ again.call.result.maskedCount = 0
                /\ again.call.result.tokensSaved = 0
                /\ again.call.result.newHistory = call.result.newHistory
                /\ again.call.ops = <<>>
                /\ again.call.scan.prunableParts = <<>>

\* an invocation replaced two records, both longer than 50,000 characters
C31_Witness ==
    /\ MaskedOnlyLongRecords
    /\ call.result.maskedCount = 2
    /\ call.result.tokensSaved > 0

\* the estimator was called for the part during the scan of the invocation
CountedByScan(part) ==
    \E k \in DOMAIN call.scan.estimated : call.scan.estimated[k] = part

(* C32 as claimed: only parts that an earlier invocation put in the place of
   a record are classified as already masked: every tool-observation part
   with a text that is not empty and that mask has never replaced takes part
   in the scan, whatever its text contains: its tokens are counted, and it is
   a prunable record when the running sum including it exceeds 50,000. *)
C32_OnlyEngineOutputSkipped ==
    Scanned =>
        \A p \in Positions(call.history) :
            LET part == PartAt(call.history, p)
            IN  /\ IsObservation(part)
                /\ ObservationText(part) # <<>>
                /\ part \notin offloaded
                => /\ CountedByScan(part)
                   /\ ~SkippedByScan(heap, part)

-----------------------------------------------------------------------------
(* ProjectRegistry: two instances, any registry file *)

(* C33 as claimed: when the two instances backed by the one registry file
   have both been initialized and assign identifiers with getShortId in any
   interleaving, no two distinct project paths hold the same short
   identifier, in one instance or across the two. *)
C33_UniqueAcrossInstances ==
    (\A r \in Registries : registries[r].initialized) =>
        \A r1 \in Registries : \A r2 \in Registries :
            \A p \in DOMAIN registries[r1].projects :
                \A q \in DOMAIN registries[r2].projects :
                    registries[r1].projects[p] = registries[r2].projects[q]
                        => p = q

(* C34 as claimed: after initialize() has returned, whatever the registry
   file held (missing, unreadable, no JSON, or JSON of any shape), the
   instance is usable: getShortId, its save not failing, does not throw and
   returns a short identifier; a file that cannot be read or parsed gives an
   instance that is not yet initialized an empty registry. *)
C34_CorruptedRegistryUsable ==
    \A r \in Registries : \A readFails \in BOOLEAN :
        (readFails => /\ RegistryFileExists(registryFile)
                      /\ ~registries[r].initialized) =>
            LET data == InitializeData(registries[r], registryFile, readFails)
            IN  /\ \A projectPath \in ProjectPaths :
                       LET out == GetShortIdOutcome(platform, data,
                                                    registryFile, projectPath,
                                                    "none")
                       IN  /\ out.call.error = ""
                           /\ out.call.id # <<>>
                /\ (/\ ~registries[r].initialized
                    /\ readFails \/ registryFile.kind = "not JSON")
                       => data = RegistryData(<<>>)

-----------------------------------------------------------------------------
(* StorageMigration: failures *)

\* the old directory is where it was, with its contents
OldDirectoryKept ==
    /\ ExistsSync(disk, migration.oldPath)
    /\ disk[migration.oldPath] = migration.before[migration.oldPath]

(* C35 as claimed: migrateDirectory never propagates an error: when an
   existence check, the creation of the parent directory or the rename fails,
   the failure is caught and logged, the call returns normally and the old
   directory, if there was one, still exists with its contents. *)
C35_FailuresCaughtAndLogged ==
    Migrated =>
        /\ ~migration.threw
        /\ migration.fault # "none" =>
              /\ migration.logged
              /\ ExistsSync(migration.before, migration.oldPath)
                     => OldDirectoryKept

(* C35 as amended: migrateDirectory never propagates an error. A failure of
   the creation of the parent directory or of the rename is caught and
   logged, and the old directory still exists with its contents, the new path
   being what it was. A failing existence check is not logged: the path is
   taken to be missing, so that after a failing check of the old path nothing
   has changed, and after a failing check of the new path the migration is
   attempted: either the rename fails and is logged, or the new path was an
   empty directory and the old one has replaced it. *)
C35_NeverThrows ==
    Migrated =>
        /\ ~migration.threw
        /\ migration.logged =>
              /\ OldDirectoryKept
              /\ disk[migration.newPath] = migration.before[migration.newPath]
        /\ migration.fault \in {"mkdir", "rename"} => migration.logged
        /\ migration.fault = "access old" =>
              ~migration.logged /\ disk = migration.before
        /\ (migration.fault \in {"access new", "access new, rename"}
               /\ ~migration.logged) =>
              \/ disk = migration.before
                    /\ ~ExistsSync(migration.before, migration.oldPath)
              \/ /\ migration.before[migration.newPath] = Directory({})
                 /\ migration.fault = "access new"
                 /\ Moved

\* the asynchronous version has logged a failed rename: the old directory
\* and its file are where they were, the parent of the new path is made
C35_Witness ==
    /\ Migrated
    /\ migration.version = "async"
    /\ migration.fault = "rename"
    /\ migration.logged
    /\ disk["old-hash"] = Directory({"old.txt"})
    /\ ~ExistsSync(migration.before, "sub")
    /\ ExistsSync(disk, "sub")

-----------------------------------------------------------------------------
(* The /plan command: order and failures *)

\* the k-th call of the invocation is a read of the file system
IsRead(k) ==
    planCall.trace[k] \in {"existsSync", "readdir", "stat", "readFile"}

(* C36: when plan mode is enabled, /plan first sets the approval mode to PLAN
   and emits 'Switched to Plan Mode.', before it looks for plans and before
   any other feedback; when a read of the plans fails it emits one error
   feedback 'Failed to read plans', adds no item, and the approval mode
   stays PLAN. *)
C36_SwitchesBeforeLooking ==
    PlanEnabledCall =>
        /\ planConfig.approvalMode = "plan"
        /\ Len(planCall.trace) >= 3
        /\ planCall.trace[1] = "setApprovalMode"
        /\ planCall.trace[2] = "emitFeedback"
        /\ planCall.feedback[1] = SwitchedFeedback
        /\ IsRead(3)
        /\ \A k \in 2..Len(planCall.trace) :
               planCall.trace[k] # "setApprovalMode"
        /\ \A k \in 2..Len(planCall.feedback) :
               planCall.feedback[k] # SwitchedFeedback
        /\ planCall.fault # "none" =>
              /\ Len(planCall.feedback) = 2
              /\ planCall.feedback[2] = FailedFeedback(planCall.fault)
              /\ planCall.feedback[2].severity = "error"
              /\ planCall.items = <<>>
              /\ planCall.trace[Len(planCall.trace)] = "emitFeedback"

\* plan mode was not the approval mode, a plan was there and its readFile
\* failed: the mode is PLAN
C36_Witness ==
    /\ PlanEnabledCall
    /\ planCall.before.approvalMode = "default"
    /\ planCall.fault = "readFile"
    /\ planConfig.approvalMode = "plan"
    /\ Len(planCall.feedback) = 2

-----------------------------------------------------------------------------
(* Properties of TerminalProvider *)

DataHandled == dataEvent.status = "handled"

\* the text handleData looked at: what was kept, then the chunk
Received == Concat(dataEvent.before, dataEvent.data)

\* the colour strings of the complete responses of a text, in their order
RECURSIVE ResponsesFrom(_, _)
ResponsesFrom(t, i) ==
    IF i >= Len(t) THEN <<>>
    ELSE IF i \in ResponseStarts(t)
         THEN <<<<"rgb:", t[i].f[1], "/", t[i].f[2], "/", t[i + 1].f[1]>>>>
                  \o ResponsesFrom(t, i + 2)
         ELSE ResponsesFrom(t, i + 1)

ResponsesIn(t) == ResponsesFrom(t, 1)

\* how often the event called handler h with colour string c
CallsOf(h, c) ==
    Cardinality({i \in 1..Len(dataEvent.calls) :
                    dataEvent.calls[i] = [handler |-> h, colorStr |-> c]})

\* how often colour string c is among the responses of text t
Occurrences(t, c) ==
    Cardinality({i \in 1..Len(ResponsesIn(t)) : ResponsesIn(t)[i] = c})

WasSubscribed(h) ==
    \E i \in 1..Len(dataEvent.subscribed) : dataEvent.subscribed[i] = h

ColorStrs ==
    {ResponsesIn(Black)[1], ResponsesIn(White)[1]}

\* the text after the last complete response of t
AfterLastResponse(t) ==
    LET last == CHOOSE j \in ResponseStarts(t) :
                    \A k \in ResponseStarts(t) : k <= j
    IN  SubSeq(t, last + 2, Len(t))

\* C37, as claimed: after every handled data event, whatever the chunk and
\* whether or not a response was matched, the buffer holds at most 1,024
\* characters.  Violated: the trimming is in the branch taken when nothing
\* matched, so what follows a matched response is kept at any length.
C37_BufferAtMost1024 == DataHandled => TextLen(buffer) <= 1024

\* C38, as claimed: by the end of a data event, every complete response
\* received has been delivered exactly once to every handler subscribed at
\* that moment and to nobody else, no complete response is left in the buffer,
\* and the buffer is the text after the last response.  Violated: one run of
\* handleData matches only the first response of the buffer.
C38_EveryResponseDeliveredOnce ==
    DataHandled =>
        /\ \A h \in Handlers : \A c \in ColorStrs :
               CallsOf(h, c) = IF WasSubscribed(h)
                               THEN Occurrences(Received, c) ELSE 0
        /\ ResponsesIn(buffer) = <<>>
        /\ ResponsesIn(Received) # <<>> =>
               buffer = AfterLastResponse(Received)

=============================================================================
